---- MODULE Spec2Model ----
(***************************************************************************)
(* BudgetManager: the API worker (src/src/frontend/main.ts, lines 769 on)  *)
(* over the D1 schema (src/unnamed/part_000, lines 649 on).                *)
(*                                                                         *)
(* Encoding of JSON values.  A field of a request body is an optional:     *)
(* <<>> when the field is absent (JavaScript undefined), <<v>> when it is  *)
(* present with value v.  A date string is encoded as the number           *)
(* yyyymmdd; BadDate stands for a non-empty string that SQLite's strftime  *)
(* cannot parse.  A month key "YYYY-MM" is encoded as the number yyyymm.   *)
(* A category name is a pair <<typeof, text>>.                             *)
(***************************************************************************)
EXTENDS Integers, Sequences, FiniteSets, TLC

VARIABLES
    categories,        \* table categories: set of rows [id, name, is_active]
    transactions,      \* table transactions: set of rows
    monthly_budgets,   \* table monthly_budgets: set of rows
    sqlite_sequence,   \* AUTOINCREMENT counters, one per table
    resp,              \* the response to the latest request
    deactivated,       \* history: ids of rows a deleteCategory has addressed
    saved,             \* history: latest upsert executed per (month, category_id)
    request,           \* history: the latest request, under the specifications
                       \* that keep it
    clientCategories,  \* client: the cached category list (`categories`)
    parsedCSVData,     \* client: the rows of the CSV file last parsed
    csvCategoryOptions,\* client: the ids offered by the default-category select
    csvText,           \* history: the text of the CSV file last parsed
    calls,             \* client: the category handlers in flight, oldest first
    outcome,           \* client: how the latest handler step ended
    currentMonth,      \* client: the month cursor (`currentMonth`), yyyymm
    activePage,        \* client: the page that has class active
    loads,             \* client: the loadDashboard / loadBudget calls in flight
    dashboard,         \* client: what the dashboard page shows
    budgetTable        \* client: what the budget page shows

store == <<categories, transactions, monthly_budgets, sqlite_sequence>>
pages == <<currentMonth, activePage, loads, dashboard, budgetTable>>
client == <<clientCategories, parsedCSVData, csvCategoryOptions, csvText, calls,
            outcome, pages>>
vars == <<categories, transactions, monthly_budgets, sqlite_sequence, resp,
          deactivated, saved, request, clientCategories, parsedCSVData,
          csvCategoryOptions, csvText, calls, outcome, currentMonth, activePage,
          loads, dashboard, budgetTable>>

\* ------------------------------------------------------------------ bounds
NumDefaultCategories == 1   \* how many of the schema's seed categories are kept
MaxNewCategories == 1       \* categories created through the API
MaxTxns == 2                \* transaction rows ever inserted
MaxBudgetRows == 2          \* budget rows ever inserted (SpecBudget)
MaxBatch == 2               \* length of an import / budgets array
MaxCalls == 2               \* category handlers of the client in flight at once
MaxCsvTxns == 1              \* transaction rows ever inserted (SpecCsv)
MaxLoads == 2               \* loadDashboard / loadBudget calls in flight at once
MaxCategories == NumDefaultCategories + MaxNewCategories

\* ------------------------------------------------------------ JSON values
Undefined == <<>>
Some(v) == <<v>>
Present(f) == f # Undefined
\* JavaScript truthiness of a string-valued / number-valued field
TruthyStr(f) == Present(f) /\ f[1] # ""
TruthyNum(f) == Present(f) /\ f[1] # 0

BadDate == 0
NoMonth == 0
Months == {202401, 202402}
DateInputs == {20240115, 20240203, BadDate}

\* strftime('%Y-%m', date): the month key of a date, NULL (NoMonth) when the
\* text is not a date
StrftimeYM(date) == IF date = BadDate THEN NoMonth ELSE date \div 100

\* ------------------------------------------------------------------ schema
DefaultCategoryNames ==
    << "Housing", "Utilities", "Groceries", "Transportation", "Insurance",
       "Debt Payments", "Savings", "Entertainment", "Miscellaneous" >>

TransactionTypes == {"income", "expense"}
TransactionSources == {"manual", "csv"}

\* no request is on record; of a request on record: method and path, the id of
\* the path, the body's transaction (<<>> or <<body>>), its transactions array,
\* its month and budgets array
NoRequest ==
    [kept |-> FALSE, method |-> "", path |-> "", id |-> 0, body |-> <<>>,
     isArray |-> FALSE, transactions |-> <<>>, month |-> <<>>, budgets |-> <<>>]

\* no handler of the client has run
NoOutcome ==
    [handler |-> "none", kind |-> "none", n |-> 0, type |-> "", category |-> <<>>,
     alone |-> FALSE]

\* the month getCurrentMonth() returns when the page is opened
ThisMonth == 202401

\* init(): categories = await fetchCategories(), then loadDashboard() up to its
\* await
Init ==
    /\ categories = { [id |-> i, name |-> DefaultCategoryNames[i], is_active |-> 1]
                        : i \in 1..NumDefaultCategories }
    /\ transactions = {}
    /\ monthly_budgets = {}
    /\ sqlite_sequence = [categories |-> NumDefaultCategories,
                          transactions |-> 0, monthly_budgets |-> 0]
    /\ resp = [op |-> "none", status |-> 0, n |-> 0, error |-> ""]
    /\ deactivated = {}
    /\ saved = {}
    /\ request = NoRequest
    /\ clientCategories = { c \in categories : c.is_active = 1 }
    /\ parsedCSVData = <<>>
    /\ csvCategoryOptions = {}
    /\ csvText = <<>>
    /\ calls = <<>>
    /\ outcome = NoOutcome
    /\ currentMonth = ThisMonth
    /\ activePage = "dashboard"
    /\ loads = << [page |-> "dashboard", month |-> ThisMonth, pc |-> "fetchSummary",
                   summary |-> <<>>] >>
    /\ dashboard = [label |-> Some(ThisMonth), summary |-> <<>>]
    /\ budgetTable = [label |-> <<>>, month |-> <<>>, inputs |-> <<>>]

\* the response: the handler that answered, the HTTP status, the body's count or
\* id (imported, last_row_id) and the body's error message
jsonResponse(op, status, n) == [op |-> op, status |-> status, n |-> n, error |-> ""]
errorResponse(op, message, status) ==
    [op |-> op, status |-> status, n |-> 0, error |-> message]

\* variant: the foreign keys are declared but not enforced
ForeignKeyOk_Unenforced(category_id) == TRUE

\* FOREIGN KEY (category_id) REFERENCES categories(id), enforced by D1
ForeignKeyOk(category_id) == \E c \in categories : c.id = category_id

\* variant: the table has no CHECK on type
TransactionRowError_NoTypeCheck(row) ==
    IF row.source \notin TransactionSources
    THEN "CHECK constraint failed"
    ELSE IF ~ ForeignKeyOk(row.category_id) THEN "FOREIGN KEY constraint failed"
    ELSE ""

\* the constraints of table transactions on one row: the message of the first
\* one that fails (CHECKs as the row is written, the foreign key when the
\* statement ends), "" when the row is accepted
TransactionRowError(row) ==
    IF row.type \notin TransactionTypes \/ row.source \notin TransactionSources
    THEN "CHECK constraint failed"
    ELSE IF ~ ForeignKeyOk(row.category_id) THEN "FOREIGN KEY constraint failed"
    ELSE ""

\* variant: the name is unique among the active rows only
CategoryNameFree_AmongActive(name, id) ==
    \A c \in categories : (c.name = name /\ c.is_active = 1) => c.id = id

\* name TEXT NOT NULL UNIQUE, for the row `id` taking `name`
CategoryNameFree(name, id) ==
    \A c \in categories : c.name = name => c.id = id

\* -------------------------------------------------------------- categories
getCategoriesResults == { c \in categories : c.is_active = 1 }

getCategories ==
    /\ resp' = jsonResponse("getCategories", 200, 0)
    /\ UNCHANGED <<store, deactivated, saved>>

\* !name || typeof name !== 'string' is false
NameValid(body) ==
    Present(body.name) /\ body.name[1][2] # "" /\ body.name[1][1] = "string"

\* variant: INSERT ... ON CONFLICT(name) DO UPDATE SET is_active = 1
createCategory_Reactivates(body) ==
    IF ~ NameValid(body)
    THEN /\ resp' = errorResponse("createCategory", "Category name is required", 400)
         /\ UNCHANGED <<store, deactivated, saved>>
    ELSE LET name == body.name[1][2]
             id == sqlite_sequence.categories + 1
         IN IF ~ CategoryNameFree(name, id)
            THEN /\ categories' = { IF c.name = name THEN [c EXCEPT !.is_active = 1]
                                    ELSE c : c \in categories }
                 /\ resp' = jsonResponse("createCategory", 201, 0)
                 /\ UNCHANGED <<transactions, monthly_budgets, sqlite_sequence,
                                deactivated, saved>>
            ELSE /\ categories' = categories \cup
                                    {[id |-> id, name |-> name, is_active |-> 1]}
                 /\ sqlite_sequence' = [sqlite_sequence EXCEPT !.categories = id]
                 /\ resp' = jsonResponse("createCategory", 201, 0)
                 /\ UNCHANGED <<transactions, monthly_budgets, deactivated, saved>>

createCategory(body) ==
    IF ~ NameValid(body)
    THEN /\ resp' = errorResponse("createCategory", "Category name is required", 400)
         /\ UNCHANGED <<store, deactivated, saved>>
    ELSE LET name == body.name[1][2]
             id == sqlite_sequence.categories + 1
         IN IF ~ CategoryNameFree(name, id)
            THEN /\ resp' = errorResponse("createCategory", "UNIQUE constraint failed", 500)
                 /\ UNCHANGED <<store, deactivated, saved>>
            ELSE /\ categories' = categories \cup
                                    {[id |-> id, name |-> name, is_active |-> 1]}
                 /\ sqlite_sequence' = [sqlite_sequence EXCEPT !.categories = id]
                 /\ resp' = jsonResponse("createCategory", 201, 0)
                 /\ UNCHANGED <<transactions, monthly_budgets, deactivated, saved>>

updateCategory(id, body) ==
    IF ~ NameValid(body)
    THEN /\ resp' = errorResponse("updateCategory", "Category name is required", 400)
         /\ UNCHANGED <<store, deactivated, saved>>
    ELSE LET name == body.name[1][2]
         IN IF (\E c \in categories : c.id = id) /\ ~ CategoryNameFree(name, id)
            THEN /\ resp' = errorResponse("updateCategory", "UNIQUE constraint failed", 500)
                 /\ UNCHANGED <<store, deactivated, saved>>
            ELSE /\ categories' = { IF c.id = id THEN [c EXCEPT !.name = name] ELSE c
                                      : c \in categories }
                 /\ resp' = jsonResponse("updateCategory", 200, 0)
                 /\ UNCHANGED <<transactions, monthly_budgets, sqlite_sequence,
                                deactivated, saved>>

\* variant: the delete cascades to the category's transactions
deleteCategory_Cascade(id) ==
    /\ categories' = { IF c.id = id THEN [c EXCEPT !.is_active = 0] ELSE c
                         : c \in categories }
    /\ transactions' = { t \in transactions : t.category_id # id }
    /\ resp' = jsonResponse("deleteCategory", 200, 0)
    /\ deactivated' = deactivated \cup { c.id : c \in {d \in categories : d.id = id} }
    /\ UNCHANGED <<monthly_budgets, sqlite_sequence, saved>>

\* variant: DELETE FROM categories WHERE id = ?
deleteCategory_Hard(id) ==
    /\ categories' = { c \in categories : c.id # id }
    /\ resp' = jsonResponse("deleteCategory", 200, 0)
    /\ deactivated' = deactivated \cup { c.id : c \in {d \in categories : d.id = id} }
    /\ UNCHANGED <<transactions, monthly_budgets, sqlite_sequence, saved>>

deleteCategory(id) ==
    /\ categories' = { IF c.id = id THEN [c EXCEPT !.is_active = 0] ELSE c
                         : c \in categories }
    /\ resp' = jsonResponse("deleteCategory", 200, 0)
    /\ deactivated' = deactivated \cup { c.id : c \in {d \in categories : d.id = id} }
    /\ UNCHANGED <<transactions, monthly_budgets, sqlite_sequence, saved>>

\* ------------------------------------------------------------ transactions
\* strftime('%Y-%m', t.date) = ?  (NULL never equals the parameter)
DatedIn(t, month) == StrftimeYM(t.date) # NoMonth /\ StrftimeYM(t.date) = month

\* GET /api/transactions; the LIMIT 100 of the unfiltered query is beyond MaxTxns
getTransactionsResults(month) ==
    IF TruthyNum(month)
    THEN { t \in transactions : DatedIn(t, month[1]) }
    ELSE transactions

getTransactions(month) ==
    /\ resp' = jsonResponse("getTransactions", 200, 0)
    /\ UNCHANGED <<store, deactivated, saved>>

\* the transaction of a request body
Txn(date, description, amount, type, category_id, source) ==
    [date |-> date, description |-> description, amount |-> amount, type |-> type,
     category_id |-> category_id, source |-> source]

\* !date || !description || amount === undefined || !type || !category_id
MissingRequiredFields(body) ==
    \/ ~ Present(body.date)
    \/ ~ TruthyStr(body.description)
    \/ body.amount = Undefined
    \/ ~ TruthyStr(body.type)
    \/ ~ TruthyNum(body.category_id)

\* the row an INSERT binds from a body; `dflt` is the destructuring default
RowOf(body, id, dflt) ==
    [id |-> id, date |-> body.date[1], description |-> body.description[1],
     amount |-> body.amount[1], type |-> body.type[1],
     category_id |-> body.category_id[1],
     source |-> IF Present(body.source) THEN body.source[1] ELSE dflt]

createTransaction(body) ==
    IF MissingRequiredFields(body)
    THEN /\ resp' = errorResponse("createTransaction", "Missing required fields", 400)
         /\ UNCHANGED <<store, deactivated, saved>>
    ELSE IF body.type[1] # "income" /\ body.type[1] # "expense"
    THEN /\ resp' = errorResponse("createTransaction",
                                   "Type must be income or expense", 400)
         /\ UNCHANGED <<store, deactivated, saved>>
    ELSE LET row == RowOf(body, sqlite_sequence.transactions + 1, "manual")
         IN IF TransactionRowError(row) # ""
            THEN /\ resp' = errorResponse("createTransaction",
                                           TransactionRowError(row), 500)
                 /\ UNCHANGED <<store, deactivated, saved>>
            ELSE /\ transactions' = transactions \cup {row}
                 /\ sqlite_sequence' = [sqlite_sequence EXCEPT !.transactions = row.id]
                 /\ resp' = jsonResponse("createTransaction", 201, row.id)
                 /\ UNCHANGED <<categories, monthly_budgets, deactivated, saved>>

\* variant: the UPDATE also sets source = 'manual'
updateTransaction_SetsSource(id, body) ==
    IF MissingRequiredFields(body)
    THEN /\ resp' = errorResponse("updateTransaction", "Missing required fields", 400)
         /\ UNCHANGED <<store, deactivated, saved>>
    ELSE LET upd(t) == [t EXCEPT !.date = body.date[1],
                                 !.description = body.description[1],
                                 !.amount = body.amount[1],
                                 !.type = body.type[1],
                                 !.category_id = body.category_id[1],
                                 !.source = "manual"]
             hit == { t \in transactions : t.id = id }
         IN IF \E t \in hit : TransactionRowError(upd(t)) # ""
            THEN /\ resp' = errorResponse("updateTransaction",
                        TransactionRowError(upd(CHOOSE t \in hit : TRUE)), 500)
                 /\ UNCHANGED <<store, deactivated, saved>>
            ELSE /\ transactions' = { IF t.id = id THEN upd(t) ELSE t
                                        : t \in transactions }
                 /\ resp' = jsonResponse("updateTransaction", 200, 0)
                 /\ UNCHANGED <<categories, monthly_budgets, sqlite_sequence,
                                deactivated, saved>>

updateTransaction(id, body) ==
    IF MissingRequiredFields(body)
    THEN /\ resp' = errorResponse("updateTransaction", "Missing required fields", 400)
         /\ UNCHANGED <<store, deactivated, saved>>
    ELSE LET upd(t) == [t EXCEPT !.date = body.date[1],
                                 !.description = body.description[1],
                                 !.amount = body.amount[1],
                                 !.type = body.type[1],
                                 !.category_id = body.category_id[1]]
             hit == { t \in transactions : t.id = id }
         IN IF \E t \in hit : TransactionRowError(upd(t)) # ""
            THEN /\ resp' = errorResponse("updateTransaction",
                        TransactionRowError(upd(CHOOSE t \in hit : TRUE)), 500)
                 /\ UNCHANGED <<store, deactivated, saved>>
            ELSE /\ transactions' = { IF t.id = id THEN upd(t) ELSE t
                                        : t \in transactions }
                 /\ resp' = jsonResponse("updateTransaction", 200, 0)
                 /\ UNCHANGED <<categories, monthly_budgets, sqlite_sequence,
                                deactivated, saved>>

\* variant: the delete is a soft one that leaves the row
deleteTransaction_Soft(id) ==
    /\ transactions' = transactions
    /\ resp' = jsonResponse("deleteTransaction", 200, 0)
    /\ UNCHANGED <<categories, monthly_budgets, sqlite_sequence, deactivated, saved>>

deleteTransaction(id) ==
    /\ transactions' = { t \in transactions : t.id # id }
    /\ resp' = jsonResponse("deleteTransaction", 200, 0)
    /\ UNCHANGED <<categories, monthly_budgets, sqlite_sequence, deactivated, saved>>

\* variant: the batch runs in one transaction, a failing INSERT rolls it back
RECURSIVE ImportLoop_Atomic(_, _, _)
ImportLoop_Atomic(txns, i, acc) ==
    IF i > Len(txns) THEN acc
    ELSE LET txn == txns[i]
         IN IF ~ MissingRequiredFields(txn)
            THEN LET row == RowOf(txn, acc.seq + 1, "csv")
                 IN IF TransactionRowError(row) = ""
                    THEN ImportLoop_Atomic(txns, i + 1,
                            [acc EXCEPT !.rows = acc.rows \cup {row},
                                        !.seq = row.id,
                                        !.imported = acc.imported + 1])
                    ELSE [rows |-> transactions, seq |-> sqlite_sequence.transactions,
                          imported |-> 0, error |-> TransactionRowError(row)]
            ELSE ImportLoop_Atomic(txns, i + 1, acc)

\* variant: imported++ after the if, counting the skipped elements too
RECURSIVE ImportLoop_CountAll(_, _, _)
ImportLoop_CountAll(txns, i, acc) ==
    IF i > Len(txns) THEN acc
    ELSE LET txn == txns[i]
         IN IF ~ MissingRequiredFields(txn)
            THEN LET row == RowOf(txn, acc.seq + 1, "csv")
                 IN IF TransactionRowError(row) = ""
                    THEN ImportLoop_CountAll(txns, i + 1,
                            [acc EXCEPT !.rows = acc.rows \cup {row},
                                        !.seq = row.id,
                                        !.imported = acc.imported + 1])
                    ELSE [acc EXCEPT !.error = TransactionRowError(row)]
            ELSE ImportLoop_CountAll(txns, i + 1,
                    [acc EXCEPT !.imported = acc.imported + 1])

\* the for loop of importTransactions from element i on; a failing INSERT throws
\* and leaves what was inserted before it
RECURSIVE ImportLoop(_, _, _)
ImportLoop(txns, i, acc) ==
    IF i > Len(txns) THEN acc
    ELSE LET txn == txns[i]
         IN IF ~ MissingRequiredFields(txn)
            THEN LET row == RowOf(txn, acc.seq + 1, "csv")
                 IN IF TransactionRowError(row) = ""
                    THEN ImportLoop(txns, i + 1,
                            [acc EXCEPT !.rows = acc.rows \cup {row},
                                        !.seq = row.id,
                                        !.imported = acc.imported + 1])
                    ELSE [acc EXCEPT !.error = TransactionRowError(row)]
            ELSE ImportLoop(txns, i + 1, acc)

importTransactions(body) ==
    IF ~ body.isArray
    THEN /\ resp' = errorResponse("importTransactions", "Transactions must be an array", 400)
         /\ UNCHANGED <<store, deactivated, saved>>
    ELSE LET r == ImportLoop(body.transactions, 1,
                     [rows |-> transactions, seq |-> sqlite_sequence.transactions,
                      imported |-> 0, error |-> ""])
         IN /\ transactions' = r.rows
            /\ sqlite_sequence' = [sqlite_sequence EXCEPT !.transactions = r.seq]
            /\ resp' = IF r.error = ""
                       THEN jsonResponse("importTransactions", 200, r.imported)
                       ELSE errorResponse("importTransactions", r.error, 500)
            /\ UNCHANGED <<categories, monthly_budgets, deactivated, saved>>

\* ----------------------------------------------------------------- budgets
getBudgetsResults(month) == { mb \in monthly_budgets : mb.month = month }

getBudgets(month) ==
    /\ resp' = IF ~ TruthyNum(month)
               THEN errorResponse("getBudgets", "Month parameter is required", 400)
               ELSE jsonResponse("getBudgets", 200, 0)
    /\ UNCHANGED <<store, deactivated, saved>>

\* history of one (month, category_id): the amount the latest upsert bound and
\* the amount bound by the one before it (<<>> when there was none)
Record(hist, month, category_id, budget_amount) ==
    LET old == { h \in hist : h.month = month /\ h.category_id = category_id }
    IN (hist \ old) \cup
       {[month |-> month, category_id |-> category_id, budget_amount |-> budget_amount,
         previous |-> IF old = {} THEN Undefined
                      ELSE Some((CHOOSE h \in old : TRUE).budget_amount)]}

\* variant: ON CONFLICT(month, category_id) DO NOTHING
Upsert_DoNothing(acc, month, category_id, budget_amount) ==
    IF \E mb \in acc.rows : mb.month = month /\ mb.category_id = category_id
    THEN [acc EXCEPT !.saved = Record(acc.saved, month, category_id, budget_amount)]
    ELSE IF ~ ForeignKeyOk(category_id)
    THEN [acc EXCEPT !.error = "FOREIGN KEY constraint failed"]
    ELSE [acc EXCEPT
            !.rows = acc.rows \cup
                       {[id |-> acc.seq + 1, month |-> month,
                         category_id |-> category_id,
                         budget_amount |-> budget_amount]},
            !.seq = acc.seq + 1,
            !.saved = Record(acc.saved, month, category_id, budget_amount)]

\* INSERT ... ON CONFLICT(month, category_id) DO UPDATE SET budget_amount =
\* excluded.budget_amount, on the accumulator [rows, seq, saved, error]
Upsert(acc, month, category_id, budget_amount) ==
    IF \E mb \in acc.rows : mb.month = month /\ mb.category_id = category_id
    THEN [acc EXCEPT
            !.rows = { IF mb.month = month /\ mb.category_id = category_id
                       THEN [mb EXCEPT !.budget_amount = budget_amount]
                       ELSE mb : mb \in acc.rows },
            !.saved = Record(acc.saved, month, category_id, budget_amount)]
    ELSE IF ~ ForeignKeyOk(category_id)
    THEN [acc EXCEPT !.error = "FOREIGN KEY constraint failed"]
    ELSE [acc EXCEPT
            !.rows = acc.rows \cup
                       {[id |-> acc.seq + 1, month |-> month,
                         category_id |-> category_id,
                         budget_amount |-> budget_amount]},
            !.seq = acc.seq + 1,
            !.saved = Record(acc.saved, month, category_id, budget_amount)]

\* the for loop of saveBudgets from element i on; a failing statement throws
RECURSIVE SaveLoop(_, _, _, _)
SaveLoop(month, budgets, i, acc) ==
    IF i > Len(budgets) THEN acc
    ELSE LET budget == budgets[i]
         IN IF TruthyNum(budget.category_id) /\ budget.budget_amount # Undefined
            THEN LET r == Upsert(acc, month, budget.category_id[1],
                                 budget.budget_amount[1])
                 IN IF r.error = "" THEN SaveLoop(month, budgets, i + 1, r) ELSE r
            ELSE SaveLoop(month, budgets, i + 1, acc)

\* variant: the month's rows are deleted before the loop
saveBudgets_Replace(body) ==
    IF ~ TruthyNum(body.month) \/ ~ body.isArray
    THEN /\ resp' = errorResponse("saveBudgets", "Month and budgets array are required",
                                   400)
         /\ UNCHANGED <<store, deactivated, saved>>
    ELSE LET r == SaveLoop(body.month[1], body.budgets, 1,
                     [rows |-> { mb \in monthly_budgets : mb.month # body.month[1] },
                      seq |-> sqlite_sequence.monthly_budgets,
                      saved |-> saved, error |-> ""])
         IN /\ monthly_budgets' = r.rows
            /\ sqlite_sequence' = [sqlite_sequence EXCEPT !.monthly_budgets = r.seq]
            /\ saved' = r.saved
            /\ resp' = IF r.error = "" THEN jsonResponse("saveBudgets", 200, 0)
                       ELSE errorResponse("saveBudgets", r.error, 500)
            /\ UNCHANGED <<categories, transactions, deactivated>>

saveBudgets(body) ==
    IF ~ TruthyNum(body.month) \/ ~ body.isArray
    THEN /\ resp' = errorResponse("saveBudgets", "Month and budgets array are required",
                                   400)
         /\ UNCHANGED <<store, deactivated, saved>>
    ELSE LET r == SaveLoop(body.month[1], body.budgets, 1,
                     [rows |-> monthly_budgets,
                      seq |-> sqlite_sequence.monthly_budgets,
                      saved |-> saved, error |-> ""])
         IN /\ monthly_budgets' = r.rows
            /\ sqlite_sequence' = [sqlite_sequence EXCEPT !.monthly_budgets = r.seq]
            /\ saved' = r.saved
            /\ resp' = IF r.error = "" THEN jsonResponse("saveBudgets", 200, 0)
                       ELSE errorResponse("saveBudgets", r.error, 500)
            /\ UNCHANGED <<categories, transactions, deactivated>>

\* ----------------------------------------------------------------- reports
RECURSIVE SumOver(_, _)
\* SUM(f[x]) over the rows S
SumOver(f, S) ==
    IF S = {} THEN 0
    ELSE LET x == CHOOSE y \in S : TRUE IN f[x] + SumOver(f, S \ {x})

\* variant: the totals query without its WHERE clause
TotalsColumn_AllMonths(ty, month) ==
    IF transactions = {} THEN Undefined
    ELSE Some(SumOver([t \in transactions |-> IF t.type = ty THEN t.amount ELSE 0],
                      transactions))

\* SUM(CASE WHEN type = ty THEN amount ELSE 0 END) FROM transactions WHERE
\* strftime('%Y-%m', date) = month: NULL (<<>>) over no rows
TotalsColumn(ty, month) ==
    LET rows == { t \in transactions : DatedIn(t, month) }
    IN IF rows = {} THEN Undefined
       ELSE Some(SumOver([t \in rows |-> IF t.type = ty THEN t.amount ELSE 0], rows))

\* x || 0
OrZero(x) == IF TruthyNum(x) THEN x[1] ELSE 0

\* variant: the transactions join without its month condition
JoinedRows_AnyMonth(month) ==
    LET ts(c) == { t \in transactions : c.id = t.category_id }
        mbs(c) == { mb \in monthly_budgets : c.id = mb.category_id /\ mb.month = month }
        opt(S) == IF S = {} THEN {Undefined} ELSE { Some(x) : x \in S }
    IN { j \in UNION { { [c |-> c, t |-> t, mb |-> mb]
                          : t \in opt(ts(c)), mb \in opt(mbs(c)) }
                         : c \in categories }
           : j.c.is_active = 1 }

\* variant: the breakdown query without WHERE c.is_active = 1
JoinedRows_AllCategories(month) ==
    LET ts(c) == { t \in transactions : c.id = t.category_id /\ DatedIn(t, month) }
        mbs(c) == { mb \in monthly_budgets : c.id = mb.category_id /\ mb.month = month }
        opt(S) == IF S = {} THEN {Undefined} ELSE { Some(x) : x \in S }
    IN UNION { { [c |-> c, t |-> t, mb |-> mb] : t \in opt(ts(c)), mb \in opt(mbs(c)) }
                 : c \in categories }

\* FROM categories c LEFT JOIN transactions t ON ... LEFT JOIN monthly_budgets mb
\* ON ... WHERE c.is_active = 1: the joined rows, t and mb optional (NULL = <<>>)
JoinedRows(month) ==
    LET ts(c) == { t \in transactions : c.id = t.category_id /\ DatedIn(t, month) }
        mbs(c) == { mb \in monthly_budgets : c.id = mb.category_id /\ mb.month = month }
        opt(S) == IF S = {} THEN {Undefined} ELSE { Some(x) : x \in S }
    IN { j \in UNION { { [c |-> c, t |-> t, mb |-> mb]
                          : t \in opt(ts(c)), mb \in opt(mbs(c)) }
                         : c \in categories }
           : j.c.is_active = 1 }

\* variant: actual is SUM(t.amount), the income rows included
CategoryBreakdown_AllTypes(month) ==
    LET J == JoinedRows(month)
        key(j) == << j.c.id, j.c.name,
                     IF Present(j.mb) THEN Some(j.mb[1].budget_amount) ELSE Undefined >>
        keys == { key(j) : j \in J }
        group(k) == { j \in J : key(j) = k }
        actual(k) == SumOver([j \in group(k) |->
                                IF Present(j.t) THEN j.t[1].amount ELSE 0], group(k))
    IN { [id |-> k[1], name |-> k[2], actual |-> actual(k),
          budgeted |-> IF Present(k[3]) THEN k[3][1] ELSE 0] : k \in keys }

\* GROUP BY c.id, c.name, mb.budget_amount with the SELECT list's aggregates
CategoryBreakdown(month) ==
    LET J == JoinedRows(month)
        key(j) == << j.c.id, j.c.name,
                     IF Present(j.mb) THEN Some(j.mb[1].budget_amount) ELSE Undefined >>
        keys == { key(j) : j \in J }
        group(k) == { j \in J : key(j) = k }
        actual(k) == SumOver([j \in group(k) |->
                                IF Present(j.t) /\ j.t[1].type = "expense"
                                THEN j.t[1].amount ELSE 0], group(k))
    IN { [id |-> k[1], name |-> k[2], actual |-> actual(k),
          budgeted |-> IF Present(k[3]) THEN k[3][1] ELSE 0] : k \in keys }

\* variant: ORDER BY actual, ascending
RECURSIVE OrderByActualDesc_Asc(_)
OrderByActualDesc_Asc(rows) ==
    IF rows = {} THEN { <<>> }
    ELSE UNION { { <<r>> \o q : q \in OrderByActualDesc_Asc(rows \ {r}) }
                   : r \in { x \in rows : \A y \in rows : x.actual <= y.actual } }

\* ORDER BY actual DESC: the lists the rows can come back as, the next row
\* being one of the greatest actual among those left; rows of equal actual come
\* in either order
RECURSIVE OrderByActualDesc(_)
OrderByActualDesc(rows) ==
    IF rows = {} THEN { <<>> }
    ELSE UNION { { <<r>> \o q : q \in OrderByActualDesc(rows \ {r}) }
                   : r \in { x \in rows : \A y \in rows : x.actual >= y.actual } }

\* the category_breakdown lists the query can return for a month
categoryBreakdownLists(month) == OrderByActualDesc(CategoryBreakdown(month))

getSummaryResult(month) ==
    LET totalIncome == OrZero(TotalsColumn("income", month))
        totalExpenses == OrZero(TotalsColumn("expense", month))
    IN [month |-> month, total_income |-> totalIncome,
        total_expenses |-> totalExpenses, net |-> totalIncome - totalExpenses,
        category_breakdown |-> CategoryBreakdown(month)]

getSummary(month) ==
    /\ resp' = IF ~ TruthyNum(month)
               THEN errorResponse("getSummary", "Month parameter is required", 400)
               ELSE jsonResponse("getSummary", 200, 0)
    /\ UNCHANGED <<store, deactivated, saved>>

\* ------------------------------------------------------------------ router
Methods == {"GET", "POST", "PUT", "DELETE", "OPTIONS", "PATCH"}
Paths ==
    { "/api/categories", "/api/categories/1", "/api/categories/x",
      "/api/transactions", "/api/transactions/import", "/api/transactions/1",
      "/api/budgets", "/api/reports/summary", "/api/reports", "/" }

\* the ids of the model as they are written in a path
IdDigits == << "1", "2", "3" >>

\* path.match(/^prefix\d+$/), over the paths of the model
MatchesId(path, prefix) == path \in { prefix \o IdDigits[i] : i \in 1..Len(IdDigits) }

\* the handler fetch hands the request to: handleOptions for a preflight,
\* notFound when no route matches
Route(method, path) ==
    IF method = "OPTIONS" THEN "handleOptions"
    ELSE IF path = "/api/categories" /\ method = "GET" THEN "getCategories"
    ELSE IF path = "/api/categories" /\ method = "POST" THEN "createCategory"
    ELSE IF MatchesId(path, "/api/categories/") /\ method = "PUT"
    THEN "updateCategory"
    ELSE IF MatchesId(path, "/api/categories/") /\ method = "DELETE"
    THEN "deleteCategory"
    ELSE IF path = "/api/transactions" /\ method = "GET" THEN "getTransactions"
    ELSE IF path = "/api/transactions" /\ method = "POST" THEN "createTransaction"
    ELSE IF path = "/api/transactions/import" /\ method = "POST"
    THEN "importTransactions"
    ELSE IF MatchesId(path, "/api/transactions/") /\ method = "PUT"
    THEN "updateTransaction"
    ELSE IF MatchesId(path, "/api/transactions/") /\ method = "DELETE"
    THEN "deleteTransaction"
    ELSE IF path = "/api/budgets" /\ method = "GET" THEN "getBudgets"
    ELSE IF path = "/api/budgets" /\ method = "POST" THEN "saveBudgets"
    ELSE IF path = "/api/reports/summary" /\ method = "GET" THEN "getSummary"
    ELSE "notFound"

\* new Response(null, { status: 204, headers: corsHeaders })
handleOptions == [op |-> "handleOptions", status |-> 204, n |-> 0, error |-> ""]

\* variant: a known path with a method it does not support is answered 405
fetchUnrouted_MethodNotAllowed(method, path) ==
    /\ Route(method, path) \in {"handleOptions", "notFound"}
    /\ resp' = IF Route(method, path) = "handleOptions"
               THEN handleOptions
               ELSE IF \E m \in Methods : Route(m, path) \notin {"handleOptions",
                                                                  "notFound"}
               THEN errorResponse("fetch", "Method not allowed", 405)
               ELSE errorResponse("fetch", "Not found", 404)
    /\ UNCHANGED <<store, deactivated, saved>>

\* fetch for a request that no handler of the API takes: the preflight answer,
\* or the 404 at the end of the router
fetchUnrouted(method, path) ==
    /\ Route(method, path) \in {"handleOptions", "notFound"}
    /\ resp' = IF Route(method, path) = "handleOptions"
               THEN handleOptions
               ELSE errorResponse("fetch", "Not found", 404)
    /\ UNCHANGED <<store, deactivated, saved>>

\* ------------------------------------------------------------ client: text
\* A text of the client is a sequence of characters.  The texts of the model
\* hold no decimal point and no exponent, so that parseFloat yields integers.
DigitChars == << "0", "1", "2", "3", "4", "5", "6", "7", "8", "9" >>
IsDigit(c) == \E d \in 1..10 : DigitChars[d] = c
DigitValue(c) == (CHOOSE d \in 1..10 : DigitChars[d] = c) - 1
IsSpace(c) == c \in {" ", "\n"}

RECURSIVE Trim(_)
\* s.trim()
Trim(s) ==
    IF s = <<>> THEN s
    ELSE IF IsSpace(s[1]) THEN Trim(Tail(s))
    ELSE IF IsSpace(s[Len(s)]) THEN Trim(SubSeq(s, 1, Len(s) - 1))
    ELSE s

RECURSIVE SplitOn(_, _)
\* s.split(sep)
SplitOn(s, sep) ==
    IF \A i \in 1..Len(s) : s[i] # sep THEN << s >>
    ELSE LET k == CHOOSE i \in 1..Len(s) :
                      s[i] = sep /\ \A j \in 1..(i - 1) : s[j] # sep
         IN << SubSeq(s, 1, k - 1) >> \o SplitOn(SubSeq(s, k + 1, Len(s)), sep)

RECURSIVE Join(_)
\* the characters of s as one string
Join(s) == IF s = <<>> THEN "" ELSE s[1] \o Join(Tail(s))

RECURSIVE DigitsValue(_, _)
\* the number the digits of s write, after the digits that wrote n
DigitsValue(s, n) ==
    IF s = <<>> THEN n ELSE DigitsValue(Tail(s), 10 * n + DigitValue(s[1]))

NaN == <<>>
\* parseFloat(s): NaN (<<>>) or <<the number>>; leading blanks, a sign, then the
\* longest run of digits, whatever follows it
parseFloat(s) ==
    LET t == IF s # <<>> /\ IsSpace(s[1]) THEN Trim(s) ELSE s
        signed == t # <<>> /\ t[1] \in {"-", "+"}
        u == IF signed THEN Tail(t) ELSE t
        n == Cardinality({ i \in 1..Len(u) : \A j \in 1..i : IsDigit(u[j]) })
    IN IF n = 0 THEN NaN
       ELSE Some((IF signed /\ t[1] = "-" THEN -1 ELSE 1)
                 * DigitsValue(SubSeq(u, 1, n), 0))

\* Math.abs(x)
Abs(x) == IF x = NaN THEN NaN ELSE Some(IF x[1] < 0 THEN -x[1] ELSE x[1])

\* s.replace(/[$,]/g, '')
StripCurrency(s) == SelectSeq(s, LAMBDA c : c \notin {"$", ","})

\* ----------------------------------------------------------- client: dates
IsLeap(y) == (y % 4 = 0 /\ y % 100 # 0) \/ y % 400 = 0
DaysIn(y, m) ==
    IF m = 2 THEN (IF IsLeap(y) THEN 29 ELSE 28)
    ELSE IF m \in {4, 6, 9, 11} THEN 30 ELSE 31

\* the calendar date yyyymmdd that s writes as YYYY-MM-DD, BadDate otherwise
IsoNumber(s) ==
    IF /\ Len(s) = 10 /\ s[5] = "-" /\ s[8] = "-"
       /\ \A i \in {1, 2, 3, 4, 6, 7, 9, 10} : IsDigit(s[i])
    THEN LET y == DigitsValue(SubSeq(s, 1, 4), 0)
             m == DigitsValue(SubSeq(s, 6, 7), 0)
             d == DigitsValue(SubSeq(s, 9, 10), 0)
         IN IF m \in 1..12 /\ d \in 1..DaysIn(y, m)
            THEN y * 10000 + m * 100 + d ELSE BadDate
    ELSE BadDate

\* the calendar date yyyymmdd that s writes as MM/DD/YYYY, BadDate otherwise
UsNumber(s) ==
    IF /\ Len(s) = 10 /\ s[3] = "/" /\ s[6] = "/"
       /\ \A i \in {1, 2, 4, 5, 7, 8, 9, 10} : IsDigit(s[i])
    THEN LET y == DigitsValue(SubSeq(s, 7, 10), 0)
             m == DigitsValue(SubSeq(s, 1, 2), 0)
             d == DigitsValue(SubSeq(s, 4, 5), 0)
         IN IF m \in 1..12 /\ d \in 1..DaysIn(y, m)
            THEN y * 10000 + m * 100 + d ELSE BadDate
    ELSE BadDate

\* the day before the calendar date n
DayBefore(n) ==
    LET y == n \div 10000
        m == (n \div 100) % 100
        d == n % 100
    IN IF d > 1 THEN n - 1
       ELSE IF m > 1 THEN y * 10000 + (m - 1) * 100 + DaysIn(y, m - 1)
       ELSE (y - 1) * 10000 + 1231

\* the browser's time zone: at, behind or ahead of UTC
TimeZones == {"utc", "west", "east"}

\* new Date(s).toISOString().split('T')[0] as yyyymmdd, BadDate when the Date is
\* invalid.  A date-only ISO text is UTC midnight; a MM/DD/YYYY text is local
\* midnight, which ahead of UTC is still the day before in UTC.  The texts of
\* the model that are neither are texts Date cannot parse.
NormalizedDate(s, tz) ==
    IF IsoNumber(s) # BadDate THEN IsoNumber(s)
    ELSE IF UsNumber(s) # BadDate
    THEN (IF tz = "east" THEN DayBefore(UsNumber(s)) ELSE UsNumber(s))
    ELSE BadDate

\* ------------------------------------------------------------- client: CSV
\* parseCSV(csvText): one row per line after the first, a function from the
\* headers to the cells; a header beyond the cells of the line maps to undefined
parseCSV(text) ==
    LET lines == SplitOn(Trim(text), "\n")
        cells(line) == LET vs == SplitOn(line, ",")
                       IN [i \in 1..Len(vs) |-> Trim(vs[i])]
        headers == cells(lines[1])
        last(h) == CHOOSE i \in 1..Len(headers) :
                      headers[i] = h /\ \A j \in (i + 1)..Len(headers) : headers[j] # h
        row(values) == [h \in { headers[i] : i \in 1..Len(headers) } |->
                          IF last(h) <= Len(values) THEN Some(values[last(h)])
                          ELSE Undefined]
    IN [i \in 1..(Len(lines) - 1) |-> row(cells(lines[i + 1]))]

\* reader.onload of handleCSVParse for a file of this text
handleCSVParse(text) ==
    /\ parsedCSVData' = parseCSV(text)
    /\ csvText' = text
    /\ IF parsedCSVData' = <<>>
       THEN /\ outcome' = [NoOutcome EXCEPT !.handler = "handleCSVParse",
                                            !.kind = "No data found in CSV"]
            /\ UNCHANGED csvCategoryOptions
       ELSE /\ outcome' = [NoOutcome EXCEPT !.handler = "handleCSVParse",
                                            !.kind = "mapping",
                                            !.n = Len(parsedCSVData')]
            /\ csvCategoryOptions' = { c.id : c \in clientCategories }
    /\ UNCHANGED <<store, resp, deactivated, saved, request, clientCategories, calls,
                   pages>>

\* the element handleCSVImport maps a row to: NoElement when the filter drops
\* the row.  An empty date is dropped like a missing one; a date that Date
\* cannot parse stays as it is (BadDate); a category NaN is sent as null, which
\* the server treats like a missing one.
NoElement == <<>>
CsvElement(row, cols, defaultType, defaultCategory, tz) ==
    LET date == row[cols.date]
        description == row[cols.description]
        amount == Abs(parseFloat(StripCurrency(row[cols.amount][1])))
    IN IF Present(date) /\ date[1] # <<>> /\ Present(description)
          /\ description[1] # <<>> /\ amount # NaN
       THEN << Txn(Some(NormalizedDate(date[1], tz)), Some(Join(description[1])),
                   amount, Some(defaultType), defaultCategory, Some("csv")) >>
       ELSE NoElement

RECURSIVE CsvElements(_, _, _, _, _)
\* parsedCSVData.map(...).filter(...) over the rows
CsvElements(rows, cols, defaultType, defaultCategory, tz) ==
    IF rows = <<>> THEN <<>>
    ELSE CsvElement(rows[1], cols, defaultType, defaultCategory, tz)
         \o CsvElements(Tail(rows), cols, defaultType, defaultCategory, tz)

\* handleCSVImport with the selects at cols, defaultType and defaultCategory
\* (<<>> when the category select has no option); maxTxns bounds the counter
handleCSVImport(cols, defaultType, defaultCategory, tz, maxTxns) ==
    /\ parsedCSVData # <<>>
    /\ IF \E i \in 1..Len(parsedCSVData) : parsedCSVData[i][cols.amount] = Undefined
       THEN \* undefined.replace: the TypeError leaves the handler before its try
            /\ outcome' = [NoOutcome EXCEPT !.handler = "handleCSVImport",
                                            !.kind = "TypeError",
                                            !.type = defaultType,
                                            !.category = defaultCategory]
            /\ request' = NoRequest
            /\ UNCHANGED <<store, resp, deactivated, saved>>
       ELSE LET elements == CsvElements(parsedCSVData, cols, defaultType,
                                        defaultCategory, tz)
            IN /\ importTransactions([isArray |-> TRUE, transactions |-> elements])
               /\ sqlite_sequence'.transactions <= maxTxns
               /\ request' = [NoRequest EXCEPT
                                !.kept = TRUE, !.method = "POST",
                                !.path = "/api/transactions/import",
                                !.isArray = TRUE, !.transactions = elements]
               /\ outcome' = [NoOutcome EXCEPT
                                !.handler = "handleCSVImport",
                                !.kind = IF resp'.status = 200
                                         THEN "Successfully imported"
                                         ELSE "Failed to import transactions",
                                !.n = Len(elements),
                                !.type = defaultType,
                                !.category = defaultCategory]
    /\ UNCHANGED <<clientCategories, parsedCSVData, csvCategoryOptions, csvText, calls,
                   pages>>

\* ------------------------------------------------------ client: categories
\* a category handler goes in flight: it is alone when no other is, and those
\* in flight are no longer alone
Enter(handler) ==
    [i \in 1..Len(calls) |-> [calls[i] EXCEPT !.alone = FALSE]]
    \o << [handler |-> handler, pc |-> "fetchCategories", snapshot |-> {},
           alone |-> calls = <<>>] >>

\* handleAddCategory up to its `await createCategory(name)`, with the server's
\* handling of the POST; the catch when the response is not ok
handleAddCategory(text) ==
    IF Trim(text) = <<>>
    THEN /\ outcome' = [NoOutcome EXCEPT !.handler = "handleAddCategory",
                                         !.kind = "Please enter a category name"]
         /\ UNCHANGED <<store, resp, deactivated, saved, request, clientCategories,
                        parsedCSVData, csvCategoryOptions, csvText, calls,
                   pages>>
    ELSE /\ createCategory([name |-> Some(<<"string", Join(Trim(text))>>)])
         /\ sqlite_sequence'.categories <= MaxCategories
         /\ request' = NoRequest
         /\ IF resp'.status = 201
            THEN /\ calls' = Enter("handleAddCategory")
                 /\ outcome' = [NoOutcome EXCEPT !.handler = "handleAddCategory",
                                                 !.kind = "await"]
            ELSE /\ calls' = [i \in 1..Len(calls) |->
                                [calls[i] EXCEPT !.alone = FALSE]]
                 /\ outcome' = [NoOutcome EXCEPT !.handler = "handleAddCategory",
                                                 !.kind = "Failed to add category"]
         /\ UNCHANGED <<clientCategories, parsedCSVData, csvCategoryOptions, csvText, pages>>

\* handleDeleteCategory, confirmed, for a button of the settings list, up to
\* its `await deleteCategory(id)`, with the server's handling of the DELETE
handleDeleteCategory(id) ==
    /\ id \in { c.id : c \in clientCategories }
    /\ deleteCategory(id)
    /\ request' = NoRequest
    /\ calls' = Enter("handleDeleteCategory")
    /\ outcome' = [NoOutcome EXCEPT !.handler = "handleDeleteCategory",
                                    !.kind = "await"]
    /\ UNCHANGED <<clientCategories, parsedCSVData, csvCategoryOptions, csvText, pages>>

\* the server handles the GET /api/categories of the call at i
fetchCategories(i) ==
    /\ i \in 1..Len(calls)
    /\ calls[i].pc = "fetchCategories"
    /\ getCategories
    /\ request' = NoRequest
    /\ calls' = [calls EXCEPT ![i].pc = "response",
                              ![i].snapshot = getCategoriesResults]
    /\ outcome' = [NoOutcome EXCEPT !.handler = calls[i].handler, !.kind = "await"]
    /\ UNCHANGED <<clientCategories, parsedCSVData, csvCategoryOptions, csvText, pages>>

\* variant: the handler returns without the assignment to `categories`
categoriesFetched_NoAssign(i) ==
    /\ i \in 1..Len(calls)
    /\ calls[i].pc = "response"
    /\ clientCategories' = clientCategories
    /\ calls' = [j \in 1..(Len(calls) - 1) |-> IF j < i THEN calls[j] ELSE calls[j + 1]]
    /\ outcome' = [NoOutcome EXCEPT !.handler = calls[i].handler,
                                    !.kind = "completed",
                                    !.alone = calls[i].alone]
    /\ UNCHANGED <<store, resp, deactivated, saved, request, parsedCSVData,
                   csvCategoryOptions, csvText, pages>>

\* the response reaches the call at i: categories = await fetchCategories();
\* loadSettings()
categoriesFetched(i) ==
    /\ i \in 1..Len(calls)
    /\ calls[i].pc = "response"
    /\ clientCategories' = calls[i].snapshot
    /\ calls' = [j \in 1..(Len(calls) - 1) |-> IF j < i THEN calls[j] ELSE calls[j + 1]]
    /\ outcome' = [NoOutcome EXCEPT !.handler = calls[i].handler,
                                    !.kind = "completed",
                                    !.alone = calls[i].alone]
    /\ UNCHANGED <<store, resp, deactivated, saved, request, parsedCSVData,
                   csvCategoryOptions, csvText, pages>>

\* ----------------------------------------------------- client: the months
\* new Date(year, monthIndex): a year of 0..99 counts from 1900, a month index
\* outside 0..11 rolls the year; [getFullYear(), getMonth()]
DateYearMonth(year, monthIndex) ==
    << (IF year \in 0..99 THEN 1900 + year ELSE year) + (monthIndex \div 12),
       monthIndex % 12 >>

\* changeMonth(offset) for the cursor: the key YYYY-MM is split into year and
\* month, the date is built and its year and month, padded to two digits, are
\* joined again
MonthAfter(cursor, offset) ==
    LET year == cursor \div 100
        month == cursor % 100
        date == DateYearMonth(year, month - 1 + offset)
    IN date[1] * 100 + (date[2] + 1)

changeMonth(offset) == MonthAfter(currentMonth, offset)

\* ------------------------------------------------------ client: the pages
RECURSIVE NumberText(_)
\* `${n}` for a number n >= 0
NumberText(n) ==
    IF n < 10 THEN << DigitChars[n + 1] >>
    ELSE NumberText(n \div 10) \o << DigitChars[(n % 10) + 1] >>

\* a loadDashboard / loadBudget call at its await fetchSummary(currentMonth)
Load(page, month) ==
    [page |-> page, month |-> month, pc |-> "fetchSummary", summary |-> <<>>]

\* a click on a nav link: the page is shown and its data loaded
showPage(pageId) ==
    /\ activePage' = pageId
    /\ loads' = Append(loads, Load(pageId, currentMonth))
    /\ IF pageId = "dashboard"
       THEN /\ dashboard' = [dashboard EXCEPT !.label = Some(currentMonth)]
            /\ UNCHANGED budgetTable
       ELSE /\ budgetTable' = [budgetTable EXCEPT !.label = Some(currentMonth)]
            /\ UNCHANGED dashboard
    /\ outcome' = [NoOutcome EXCEPT !.handler = "showPage", !.kind = "await"]
    /\ UNCHANGED <<store, resp, deactivated, saved, request, clientCategories,
                   parsedCSVData, csvCategoryOptions, csvText, calls, currentMonth>>

\* a click on prev-month / next-month of the dashboard:
\* currentMonth = changeMonth(offset); loadDashboard() up to its await
dashboardMonthClick(offset) ==
    /\ activePage = "dashboard"
    /\ currentMonth' = changeMonth(offset)
    /\ dashboard' = [dashboard EXCEPT !.label = Some(currentMonth')]
    /\ loads' = Append(loads, Load("dashboard", currentMonth'))
    /\ outcome' = [NoOutcome EXCEPT !.handler = "loadDashboard", !.kind = "await"]
    /\ UNCHANGED <<store, resp, deactivated, saved, request, clientCategories,
                   parsedCSVData, csvCategoryOptions, csvText, calls, activePage,
                   budgetTable>>

\* a click on budget-prev-month / budget-next-month:
\* currentMonth = changeMonth(offset); loadBudget() up to its await
budgetMonthClick(offset) ==
    /\ activePage = "budget"
    /\ currentMonth' = changeMonth(offset)
    /\ budgetTable' = [budgetTable EXCEPT !.label = Some(currentMonth')]
    /\ loads' = Append(loads, Load("budget", currentMonth'))
    /\ outcome' = [NoOutcome EXCEPT !.handler = "loadBudget", !.kind = "await"]
    /\ UNCHANGED <<store, resp, deactivated, saved, request, clientCategories,
                   parsedCSVData, csvCategoryOptions, csvText, calls, activePage,
                   dashboard>>

\* the server handles the GET /api/reports/summary of the load at i
fetchSummary(i) ==
    /\ i \in 1..Len(loads)
    /\ loads[i].pc = "fetchSummary"
    /\ getSummary(Some(loads[i].month))
    /\ request' = NoRequest
    /\ loads' = [loads EXCEPT ![i].pc = "response",
                              ![i].summary = Some(getSummaryResult(loads[i].month))]
    /\ outcome' = [NoOutcome EXCEPT !.handler = "fetchSummary", !.kind = "await"]
    /\ UNCHANGED <<clientCategories, parsedCSVData, csvCategoryOptions, csvText,
                   calls, currentMonth, activePage, dashboard, budgetTable>>

\* the inputs loadBudget renders: one per cached category, its value the
\* budgeted of the category's breakdown row, 0 without one
RenderedInputs(summary) ==
    [id \in { c.id : c \in clientCategories } |->
        LET rows == { r \in summary.category_breakdown : r.id = id }
        IN NumberText(IF rows = {} THEN 0 ELSE (CHOOSE r \in rows : TRUE).budgeted)]

\* the response reaches the load at i: the rest of loadDashboard / loadBudget
summaryFetched(i) ==
    /\ i \in 1..Len(loads)
    /\ loads[i].pc = "response"
    /\ loads' = [j \in 1..(Len(loads) - 1) |-> IF j < i THEN loads[j] ELSE loads[j + 1]]
    /\ IF loads[i].page = "dashboard"
       THEN /\ dashboard' = [dashboard EXCEPT !.summary = loads[i].summary]
            /\ UNCHANGED budgetTable
       ELSE /\ budgetTable' = [budgetTable EXCEPT
                                 !.month = Some(loads[i].summary[1].month),
                                 !.inputs = RenderedInputs(loads[i].summary[1])]
            /\ UNCHANGED dashboard
    /\ outcome' = [NoOutcome EXCEPT !.handler = loads[i].page, !.kind = "completed"]
    /\ UNCHANGED <<store, resp, deactivated, saved, request, clientCategories,
                   parsedCSVData, csvCategoryOptions, csvText, calls, currentMonth,
                   activePage>>

\* the user types text into the budget input of category id
typeBudgetInput(id, text) ==
    /\ activePage = "budget"
    /\ id \in DOMAIN budgetTable.inputs
    /\ budgetTable' = [budgetTable EXCEPT !.inputs[id] = text]
    /\ outcome' = [NoOutcome EXCEPT !.handler = "typeBudgetInput", !.kind = "typed"]
    /\ UNCHANGED <<store, resp, deactivated, saved, request, clientCategories,
                   parsedCSVData, csvCategoryOptions, csvText, calls, currentMonth,
                   activePage, loads, dashboard>>

RECURSIVE BudgetPairs(_, _)
\* the array saveBudgetData builds from the inputs with ids in S, in the order
\* of the table: parseInt(dataset.categoryId), parseFloat(value) || 0
BudgetPairs(inputs, S) ==
    IF S = {} THEN <<>>
    ELSE LET id == CHOOSE i \in S : \A j \in S : i <= j
         IN << [category_id |-> Some(id),
                budget_amount |-> Some(OrZero(parseFloat(inputs[id])))] >>
            \o BudgetPairs(inputs, S \ {id})

\* a click on save-budget: saveBudgetData with the server's handling of its
\* POST /api/budgets, then the alert and loadBudget() up to its await
saveBudgetData ==
    /\ activePage = "budget"
    /\ LET budgets == BudgetPairs(budgetTable.inputs, DOMAIN budgetTable.inputs)
       IN /\ saveBudgets([month |-> Some(currentMonth), isArray |-> TRUE,
                          budgets |-> budgets])
          /\ request' = [NoRequest EXCEPT
                           !.kept = TRUE, !.method = "POST", !.path = "/api/budgets",
                           !.isArray = TRUE, !.month = Some(currentMonth),
                           !.budgets = budgets]
    /\ IF resp'.status = 200
       THEN /\ outcome' = [NoOutcome EXCEPT !.handler = "saveBudgetData",
                                            !.kind = "Budget saved successfully!"]
            /\ budgetTable' = [budgetTable EXCEPT !.label = Some(currentMonth)]
            /\ loads' = Append(loads, Load("budget", currentMonth))
       ELSE /\ outcome' = [NoOutcome EXCEPT !.handler = "saveBudgetData",
                                            !.kind = "Failed to save budget"]
            /\ UNCHANGED <<budgetTable, loads>>
    /\ UNCHANGED <<clientCategories, parsedCSVData, csvCategoryOptions, csvText,
                   calls, currentMonth, activePage, dashboard>>

\* ------------------------------------------------------------------ inputs
RECURSIVE SeqsUpTo(_, _)
\* the sequences over S of length at most n
SeqsUpTo(S, n) ==
    IF n = 0 THEN { <<>> }
    ELSE LET shorter == SeqsUpTo(S, n - 1)
         IN shorter \cup { Append(q, x) : q \in { r \in shorter : Len(r) = n - 1 },
                                          x \in S }

CategoryIdInputs == 1..(MaxCategories + 1)      \* the last id is never a row
TransactionIdInputs == 1..(MaxTxns + 1)
MonthInputs == {Undefined} \cup { Some(m) : m \in Months }
ImportBodiesOver(elements) ==
    { [isArray |-> FALSE, transactions |-> <<>>] } \cup
    { [isArray |-> TRUE, transactions |-> q] : q \in SeqsUpTo(elements, MaxBatch) }
BudgetBodiesOver(months, elements) ==
    { [month |-> Undefined, isArray |-> TRUE, budgets |-> <<>>],
      [month |-> Some(202401), isArray |-> FALSE, budgets |-> <<>>] } \cup
    { [month |-> Some(m), isArray |-> TRUE, budgets |-> q]
        : m \in months, q \in SeqsUpTo(elements, MaxBatch) }
\* a preflight and a request without a route
FewRoutes == { <<"OPTIONS", "/api/budgets">>, <<"DELETE", "/api/categories">> }
\* the requests that lack a field or carry a value the schema rejects
BadTransactionBodies ==
    { Txn(Undefined, Some("Rent"), Some(2), Some("expense"), Some(1), Undefined),
      Txn(Some(20240115), Some(""), Some(2), Some("expense"), Some(1), Undefined),
      Txn(Some(20240115), Some("Rent"), Undefined, Some("expense"), Some(1), Undefined),
      Txn(Some(20240115), Some("Rent"), Some(2), Undefined, Some(1), Undefined),
      Txn(Some(20240115), Some("Rent"), Some(2), Some("other"), Some(1), Undefined),
      Txn(Some(20240115), Some("Rent"), Some(2), Some("expense"), Some(0), Undefined),
      Txn(Some(20240115), Some("Rent"), Some(2), Some("expense"),
          Some(MaxCategories + 1), Undefined),
      Txn(Some(20240115), Some("Rent"), Some(2), Some("expense"), Some(1),
          Some("bank")) }

\* Spec: every kind of request, few values
StoreInputs ==
    [categoryBodies |-> [name : { Undefined, Some(<<"string", "">>),
                                  Some(<<"number", "7">>),
                                  Some(<<"string", "Housing">>),
                                  Some(<<"string", "Pets">>) }],
     transactionBodies |->
        BadTransactionBodies \cup
        { Txn(Some(20240115), Some("Rent"), Some(-1), Some("income"), Some(1),
              Undefined) }
        \cup { Txn(Some(20240115), Some("Rent"), Some(2), Some("expense"), Some(c),
                   Undefined) : c \in 1..MaxCategories },
     importBodies |-> ImportBodiesOver(
        { Txn(Some(20240203), Some("Rent"), Some(2), Some("expense"), Some(1), Undefined),
          Txn(Some(BadDate), Some("Rent"), Some(-1), Some("income"), Some(1),
              Some("manual")),
          Txn(Some(20240203), Undefined, Some(2), Some("expense"), Some(1), Undefined),
          Txn(Some(20240203), Some("Rent"), Some(2), Some("other"), Some(1), Undefined),
          Txn(Some(20240203), Some("Rent"), Some(2), Some("expense"),
              Some(MaxCategories + 1), Undefined) }),
     budgetBodies |-> BudgetBodiesOver({202401},
        { [category_id |-> Some(1), budget_amount |-> Some(5)],
          [category_id |-> Some(MaxCategories + 1), budget_amount |-> Some(5)],
          [category_id |-> Undefined, budget_amount |-> Some(5)],
          [category_id |-> Some(1), budget_amount |-> Undefined] }),
     maxTxns |-> MaxTxns, maxBudgetRows |-> 1, keepRequest |-> FALSE,
     routes |-> FewRoutes]

\* SpecReport: the values a month's summary depends on
ReportInputs ==
    [categoryBodies |-> [name : { Undefined, Some(<<"string", "Pets">>) }],
     transactionBodies |->
        { Txn(Some(d), Some("Rent"), Some(2), Some(ty), Some(c), Undefined)
            : d \in {20240115, 20240203}, ty \in TransactionTypes,
              c \in 1..MaxCategories }
        \cup { Txn(Some(20240115), Some("Rent"), Some(3), Some("expense"), Some(c),
                   Undefined) : c \in 1..MaxCategories },
     importBodies |-> ImportBodiesOver(
        { Txn(Some(BadDate), Some("Rent"), Some(3), Some("expense"), Some(1),
              Undefined) }),
     budgetBodies |-> BudgetBodiesOver({202401},
        { [category_id |-> Some(c), budget_amount |-> Some(5)]
            : c \in 1..MaxCategories }),
     maxTxns |-> MaxTxns, maxBudgetRows |-> 1, keepRequest |-> FALSE,
     routes |-> FewRoutes]

\* SpecBudget: the values the budget table depends on
BudgetInputs ==
    [categoryBodies |-> [name : { Undefined, Some(<<"string", "Pets">>) }],
     transactionBodies |->
        { Txn(Some(20240115), Some("Rent"), Some(2), Some("expense"), Some(1),
              Undefined),
          Txn(Undefined, Some("Rent"), Some(2), Some("expense"), Some(1), Undefined) },
     importBodies |-> ImportBodiesOver(
        { Txn(Some(20240115), Some("Rent"), Some(2), Some("expense"), Some(1),
              Undefined) }),
     budgetBodies |-> BudgetBodiesOver(Months,
        { [category_id |-> Some(1), budget_amount |-> Some(a)] : a \in {5, 7} }
        \cup { [category_id |-> Some(c), budget_amount |-> Some(5)]
                 : c \in CategoryIdInputs }
        \cup { [category_id |-> Undefined, budget_amount |-> Some(5)] }),
     maxTxns |-> 1, maxBudgetRows |-> MaxBudgetRows, keepRequest |-> FALSE,
     routes |-> FewRoutes]

\* SpecImport: the elements an import batch treats differently, in batches one
\* longer than elsewhere, the body of each import kept on record
ImportInputs ==
    [categoryBodies |-> [name : { Some(<<"string", "Pets">>) }],
     transactionBodies |->
        { Txn(Some(20240115), Some("Rent"), Some(2), Some("expense"), Some(1),
              Undefined),
          Txn(Some(20240115), Some("Rent"), Undefined, Some("expense"), Some(1),
              Undefined) },
     importBodies |->
        { [isArray |-> FALSE, transactions |-> <<>>] } \cup
        { [isArray |-> TRUE, transactions |-> q]
            : q \in SeqsUpTo(
                { Txn(Some(20240203), Some("Rent"), Some(2), Some("expense"), Some(1),
                      Undefined),
                  Txn(Some(20240203), Undefined, Some(2), Some("expense"), Some(1),
                      Undefined),
                  Txn(Some(20240203), Some("Rent"), Some(2), Some("other"), Some(1),
                      Undefined),
                  Txn(Some(20240203), Some("Rent"), Some(3), Some("income"),
                      Some(MaxCategories), Some("manual")) },
                MaxBatch + 1) },
     budgetBodies |-> BudgetBodiesOver({202401},
        { [category_id |-> Some(1), budget_amount |-> Some(5)] }),
     maxTxns |-> MaxTxns, maxBudgetRows |-> 1, keepRequest |-> TRUE,
     routes |-> Methods \X Paths]

\* a request that does not come from the client of the model: r goes on record
\* and the client is as it was
Served(r) == request' = r /\ UNCHANGED client

\* the texts of the client
Header == << "d", ",", "s", ",", "a" >>
Date0301 == << "2", "0", "2", "4", "-", "0", "3", "-", "0", "1" >>
Us0301 == << "0", "3", "/", "0", "1", "/", "2", "0", "2", "4" >>
Rent == << "R", "e", "n", "t" >>
Newline == << "\n" >>
Comma == << "," >>
\* the CSV files: an amount with a thousands separator; a negative amount and
\* one that is no number; a line short of its amount; lines without date or
\* description and a padded line with a MM/DD/YYYY date; an empty file
CsvTexts ==
    { Header \o Newline \o Date0301 \o Comma \o Rent \o Comma
        \o << "$", "1", ",", "5", "0", "0" >>,
      Header \o Newline \o Date0301 \o Comma \o Rent \o Comma \o << "-", "$", "2", "0" >>
        \o Newline \o Date0301 \o Comma \o Rent \o Comma \o << "a", "b", "c" >>,
      Header \o Newline \o Date0301 \o Comma \o Rent \o Comma \o << "5" >>
        \o Newline \o Date0301 \o Comma \o Rent,
      Header \o Newline \o Comma \o Rent \o Comma \o << "5" >>
        \o Newline \o Date0301 \o Comma \o Comma \o << "5" >>
        \o Newline \o << " " >> \o Us0301 \o << " ", ",", " " >> \o Rent
        \o << " ", ",", " ", "$", "7", " " >>,
      << >> }
CategoryNameTexts == { << " " >>, << "P", "e", "t", "s" >>,
                       << "H", "o", "u", "s", "i", "n", "g" >> }
\* the column selects set to the headers d, s and a
Columns == [date |-> << "d" >>, description |-> << "s" >>, amount |-> << "a" >>]

\* one step of the client's settings page, with the server's handling of the
\* request it sends; the model stops at maxCalls handlers in flight
Settings(nameTexts, maxCalls) ==
    \/ \E text \in nameTexts :
          handleAddCategory(text) /\ Len(calls') <= maxCalls
    \/ \E id \in CategoryIdInputs :
          handleDeleteCategory(id) /\ Len(calls') <= maxCalls
    \/ \E i \in 1..maxCalls : fetchCategories(i)
    \/ \E i \in 1..maxCalls : categoriesFetched(i)

\* SpecClient: the settings page, its handlers overlapping
NextClient == Settings(CategoryNameTexts, MaxCalls)
SpecClient == Init /\ [][NextClient]_vars

\* SpecMonth: the dashboard and the budget page, their loads overlapping; the
\* model stops at MaxLoads loads in flight and keeps the cursor on ThisMonth
\* and the month before it, which lie on the two sides of a new year
PageNames == {"dashboard", "budget"}
BudgetInputTexts == { << "7" >> }
CursorMonths == { MonthAfter(ThisMonth, -1), ThisMonth }
NextMonth ==
    \/ \E pageId \in PageNames : showPage(pageId) /\ Len(loads') <= MaxLoads
    \/ \E offset \in {-1, 1} :
          /\ dashboardMonthClick(offset)
          /\ Len(loads') <= MaxLoads /\ currentMonth' \in CursorMonths
    \/ \E offset \in {-1, 1} :
          /\ budgetMonthClick(offset)
          /\ Len(loads') <= MaxLoads /\ currentMonth' \in CursorMonths
    \/ \E i \in 1..MaxLoads : fetchSummary(i)
    \/ \E i \in 1..MaxLoads : summaryFetched(i)
    \/ \E id \in CategoryIdInputs, text \in BudgetInputTexts : typeBudgetInput(id, text)
    \/ /\ saveBudgetData
       /\ Len(loads') <= MaxLoads
       /\ sqlite_sequence'.monthly_budgets <= MaxBudgetRows
SpecMonth == Init /\ [][NextMonth]_vars

\* SpecCsv: the CSV import of the transactions page, and the settings page with
\* one handler at a time
NextCsv ==
    \/ \E text \in CsvTexts : handleCSVParse(text)
    \/ \E defaultType \in TransactionTypes, tz \in TimeZones,
          defaultCategory \in IF csvCategoryOptions = {} THEN { NaN }
                              ELSE { Some(id) : id \in csvCategoryOptions } :
          handleCSVImport(Columns, defaultType, defaultCategory, tz, MaxCsvTxns)
    \/ Settings({ << "P", "e", "t", "s" >> }, 1)
SpecCsv == Init /\ [][NextCsv]_vars

\* one request to the API, its inputs drawn from I; the model stops the
\* AUTOINCREMENT counters at their bounds
Request(I) ==
    \/ getCategories /\ Served(NoRequest)
    \/ \E body \in I.categoryBodies :
          /\ createCategory(body) /\ sqlite_sequence'.categories <= MaxCategories
          /\ Served(NoRequest)
    \/ \E id \in CategoryIdInputs, body \in I.categoryBodies :
          updateCategory(id, body) /\ Served(NoRequest)
    \/ \E id \in CategoryIdInputs : deleteCategory(id) /\ Served(NoRequest)
    \/ \E month \in MonthInputs : getTransactions(month) /\ Served(NoRequest)
    \/ \E body \in I.transactionBodies :
          /\ createTransaction(body) /\ sqlite_sequence'.transactions <= I.maxTxns
          /\ Served(NoRequest)
    \/ \E id \in TransactionIdInputs, body \in I.transactionBodies :
          /\ updateTransaction(id, body)
          /\ Served(IF I.keepRequest
                    THEN [NoRequest EXCEPT
                            !.kept = TRUE, !.method = "PUT",
                            !.path = "/api/transactions/" \o IdDigits[id],
                            !.id = id, !.body = << body >>]
                    ELSE NoRequest)
    \/ \E id \in TransactionIdInputs : deleteTransaction(id) /\ Served(NoRequest)
    \/ \E body \in I.importBodies :
          /\ importTransactions(body) /\ sqlite_sequence'.transactions <= I.maxTxns
          /\ Served(IF I.keepRequest
                    THEN [NoRequest EXCEPT
                            !.kept = TRUE, !.method = "POST",
                            !.path = "/api/transactions/import",
                            !.isArray = body.isArray,
                            !.transactions = body.transactions]
                    ELSE NoRequest)
    \/ \E month \in MonthInputs : getBudgets(month) /\ Served(NoRequest)
    \/ \E body \in I.budgetBodies :
          /\ saveBudgets(body) /\ sqlite_sequence'.monthly_budgets <= I.maxBudgetRows
          /\ Served(IF I.keepRequest
                    THEN [NoRequest EXCEPT
                            !.kept = TRUE, !.method = "POST", !.path = "/api/budgets",
                            !.isArray = body.isArray, !.month = body.month,
                            !.budgets = body.budgets]
                    ELSE NoRequest)
    \/ \E month \in MonthInputs : getSummary(month) /\ Served(NoRequest)
    \/ \E route \in I.routes :
          /\ fetchUnrouted(route[1], route[2])
          /\ Served(IF I.keepRequest
                    THEN [NoRequest EXCEPT !.kept = TRUE, !.method = route[1],
                                           !.path = route[2]]
                    ELSE NoRequest)

\* SpecFrame: the pairs a budget save treats differently, in both months, the
\* request of each save kept on record
FrameInputs ==
    [categoryBodies |-> [name : { Undefined }],
     transactionBodies |->
        { Txn(Some(20240115), Some("Rent"), Some(2), Some("expense"), Some(1),
              Undefined) },
     importBodies |-> ImportBodiesOver(
        { Txn(Some(20240115), Some("Rent"), Some(2), Some("expense"), Some(1),
              Undefined) }),
     budgetBodies |->
        BudgetBodiesOver({202401},
           { [category_id |-> Some(1), budget_amount |-> Some(a)] : a \in {5, 7} }
           \cup { [category_id |-> Some(MaxCategories + 1), budget_amount |-> Some(5)],
                  [category_id |-> Undefined, budget_amount |-> Some(5)],
                  [category_id |-> Some(1), budget_amount |-> Undefined] })
        \cup BudgetBodiesOver({202402},
           { [category_id |-> Some(1), budget_amount |-> Some(7)] }),
     maxTxns |-> 1, maxBudgetRows |-> MaxBudgetRows, keepRequest |-> TRUE,
     routes |-> FewRoutes]
NextFrame == Request(FrameInputs)
SpecFrame == Init /\ [][NextFrame]_vars

\* SpecUpdate: the bodies a transaction update treats differently, on rows
\* created and imported, the request of each update kept on record
UpdateInputs ==
    [categoryBodies |-> [name : { Some(<<"string", "Pets">>) }],
     transactionBodies |->
        { Txn(Some(20240115), Some("Rent"), Some(2), Some("expense"), Some(1),
              Undefined),
          Txn(Some(20240203), Some("Food"), Some(3), Some("income"),
              Some(MaxCategories), Some("manual")),
          Txn(Some(20240203), Some("Food"), Some(3), Undefined, Some(1), Undefined),
          Txn(Some(20240203), Some("Food"), Some(3), Some("other"), Some(1), Undefined),
          Txn(Some(20240203), Some("Food"), Some(3), Some("income"),
              Some(MaxCategories + 1), Undefined) },
     importBodies |-> ImportBodiesOver(
        { Txn(Some(20240115), Some("Rent"), Some(2), Some("expense"), Some(1),
              Undefined) }),
     budgetBodies |-> BudgetBodiesOver({202401},
        { [category_id |-> Some(1), budget_amount |-> Some(5)] }),
     maxTxns |-> MaxTxns, maxBudgetRows |-> 1, keepRequest |-> TRUE,
     routes |-> FewRoutes]
NextUpdate == Request(UpdateInputs)
SpecUpdate == Init /\ [][NextUpdate]_vars

Next == Request(StoreInputs)
Spec == Init /\ [][Next]_vars

NextReport == Request(ReportInputs)
SpecReport == Init /\ [][NextReport]_vars

NextBudget == Request(BudgetInputs)
SpecBudget == Init /\ [][NextBudget]_vars

NextImport == Request(ImportInputs)
SpecImport == Init /\ [][NextImport]_vars

\* ------------------------------------------------- what the claims speak of
\* a transaction is dated in month m: its date is a calendar date of that month
InMonth(t, m) == t.date # BadDate /\ t.date \div 100 = m

RECURSIVE AmountsById(_, _)
\* the sum of the amounts of the rows in S, row by row from id n down
AmountsById(n, S) ==
    IF n = 0 THEN 0
    ELSE AmountsById(n - 1, S)
         + (LET rows == { t \in S : t.id = n }
            IN IF rows = {} THEN 0 ELSE (CHOOSE t \in rows : TRUE).amount)

IncomeIn(m) ==
    AmountsById(sqlite_sequence.transactions,
                { t \in transactions : t.type = "income" /\ InMonth(t, m) })
ExpensesIn(m) ==
    AmountsById(sqlite_sequence.transactions,
                { t \in transactions : t.type = "expense" /\ InMonth(t, m) })
ExpensesOf(id, m) ==
    AmountsById(sqlite_sequence.transactions,
                { t \in transactions : t.type = "expense" /\ InMonth(t, m)
                                       /\ t.category_id = id })
BudgetOf(id, m) ==
    LET rows == { mb \in monthly_budgets : mb.month = m /\ mb.category_id = id }
    IN IF rows = {} THEN 0 ELSE (CHOOSE mb \in rows : TRUE).budget_amount
ActiveIds == { c.id : c \in { d \in categories : d.is_active = 1 } }
BreakdownIds(m) == { r.id : r \in getSummaryResult(m).category_breakdown }

\* C1: in every reachable store and for every month m, getSummary(m) reports
\* total_income = the sum of the income amounts dated in m, total_expenses = the
\* sum of the expense amounts dated in m (0 and 0 for a month without
\* transactions) and net = total_income - total_expenses.
C1_SummaryTotals ==
    \A m \in Months :
        LET r == getSummaryResult(m)
        IN /\ r.total_income = IncomeIn(m)
           /\ r.total_expenses = ExpensesIn(m)
           /\ r.net = r.total_income - r.total_expenses
           /\ r.net = IncomeIn(m) - ExpensesIn(m)
           /\ (\A t \in transactions : ~ InMonth(t, m))
                 => r.total_income = 0 /\ r.total_expenses = 0

\* a summary was served while one month holds an income and an expense, and the
\* other month holds nothing
C1_Witness ==
    /\ resp.op = "getSummary" /\ resp.status = 200
    /\ getSummaryResult(202401).total_income = 2
    /\ getSummaryResult(202401).total_expenses = 3
    /\ getSummaryResult(202401).net = -1
    /\ getSummaryResult(202402).total_income = 0
    /\ getSummaryResult(202402).total_expenses = 0

\* C2: in every reachable store and for every month m, the breakdown of
\* getSummary(m) has exactly one row per active category and no other row; the
\* row's actual is the sum of the category's expense amounts dated in m and its
\* budgeted is the budget amount stored for (m, category), 0 when there is none.
C2_BreakdownRows ==
    \A m \in Months :
        LET B == getSummaryResult(m).category_breakdown
        IN /\ BreakdownIds(m) = ActiveIds
           /\ Cardinality(B) = Cardinality(ActiveIds)
           /\ \A r \in B : /\ r.actual = ExpensesOf(r.id, m)
                           /\ r.budgeted = BudgetOf(r.id, m)

\* a summary was served while an active category has two expenses and a budget in
\* one month, and an income that adds nothing is in another category
C2_Witness ==
    /\ resp.op = "getSummary" /\ resp.status = 200
    /\ \E r \in getSummaryResult(202401).category_breakdown :
          /\ r.actual = 5 /\ r.budgeted = 5
          /\ Cardinality({ t \in transactions : t.category_id = r.id
                                                /\ InMonth(t, 202401) }) = 2

\* C3: when deleteCategory deactivates a category, the breakdown of every month
\* in which the category already has expense transactions still holds, after the
\* request, the category's row with its expense sum.
C3_DeactivatedStillReported ==
    [][ resp'.op = "deleteCategory" =>
          \A c \in categories :
              (c.is_active = 1 /\ c.id \in deactivated') =>
                  \A m \in Months :
                      ExpensesOf(c.id, m) # 0 =>
                          \E r \in (getSummaryResult(m).category_breakdown)' :
                              r.id = c.id /\ r.actual = ExpensesOf(c.id, m) ]_vars

\* C4: in every reachable store and for every month m, every category that a
\* transaction dated in m or a budget for m refers to has a row in the breakdown
\* of getSummary(m).
C4_BreakdownSuperset ==
    \A m \in Months :
        /\ \A t \in transactions : InMonth(t, m) => t.category_id \in BreakdownIds(m)
        /\ \A mb \in monthly_budgets : mb.month = m => mb.category_id \in BreakdownIds(m)

\* C5: a deleteCategory request leaves every transaction row, every budget row
\* and the counters as they were, keeps the id and the name of every category,
\* and changes the is_active flag of at most one category, to 0.
C5_DeleteCategoryFrame ==
    [][ resp'.op = "deleteCategory" =>
          /\ transactions' = transactions
          /\ monthly_budgets' = monthly_budgets
          /\ sqlite_sequence' = sqlite_sequence
          /\ { <<c.id, c.name>> : c \in categories' } = { <<c.id, c.name>> : c \in categories }
          /\ Cardinality(categories') = Cardinality(categories)
          /\ Cardinality(categories' \ categories) <= 1
          /\ \A c \in categories' \ categories : c.is_active = 0 ]_vars

\* a category with a transaction and a budget that refer to it was deactivated
C5_Witness ==
    /\ resp.op = "deleteCategory" /\ resp.status = 200
    /\ \E c \in categories :
          /\ c.is_active = 0
          /\ \E t \in transactions : t.category_id = c.id
          /\ \E mb \in monthly_budgets : mb.category_id = c.id
    /\ \E c \in categories : c.is_active = 1

\* C6: once deleteCategory has deactivated a category, getCategories never lists
\* it and no month's breakdown has a row for it; getCategories lists exactly the
\* categories with is_active = 1, which are the rows no deleteCategory addressed.
C6_DeactivatedHidden ==
    /\ \A id \in deactivated :
          /\ id \notin { c.id : c \in getCategoriesResults }
          /\ \A m \in Months : id \notin BreakdownIds(m)
    /\ { c.id : c \in getCategoriesResults } = { c.id : c \in categories } \ deactivated
    /\ \A c \in getCategoriesResults : c \in categories /\ c.is_active = 1

\* a deactivated category has a transaction and a budget in a month, other
\* requests have followed the deactivation, and a category is still listed
C6_Witness ==
    /\ resp.op \in {"getCategories", "getSummary"} /\ resp.status = 200
    /\ \E id \in deactivated :
          /\ \E t \in transactions : t.category_id = id /\ InMonth(t, 202401)
          /\ \E mb \in monthly_budgets : mb.category_id = id /\ mb.month = 202401
    /\ getCategoriesResults # {}

\* C7: the budget table holds at most one row per (month, category_id), and the
\* row's budget_amount is the amount of the latest upsert a saveBudgets request
\* executed for the pair; a second save of a pair adds no row.
C7_OneBudgetRowPerPair ==
    /\ \A a \in monthly_budgets : \A b \in monthly_budgets :
          (a.month = b.month /\ a.category_id = b.category_id) => a = b
    /\ { <<mb.month, mb.category_id, mb.budget_amount>> : mb \in monthly_budgets }
          = { <<h.month, h.category_id, h.budget_amount>> : h \in saved }
    /\ Cardinality(monthly_budgets) = Cardinality(saved)

\* a pair was saved with 5 and then with 7, and another pair holds its own row
C7_Witness ==
    /\ resp.op = "saveBudgets" /\ resp.status = 200
    /\ \E h \in saved :
          /\ h.previous = Some(5) /\ h.budget_amount = 7
          /\ Cardinality({ mb \in monthly_budgets :
                             mb.month = h.month /\ mb.category_id = h.category_id }) = 1
    /\ Cardinality(monthly_budgets) = 2

\* C8: every stored transaction has a non-negative amount.
C8_AmountsNonNegative ==
    \A t \in transactions : t.amount >= 0

\* C9: every transaction's and every budget row's category_id is the id of a
\* category row, active or not.
C9_CategoryReferencesExist ==
    /\ \A t \in transactions : \E c \in categories : c.id = t.category_id
    /\ \A mb \in monthly_budgets : \E c \in categories : c.id = mb.category_id

\* a request naming a category that does not exist was refused, while the store
\* holds a transaction and a budget of a deactivated category
C9_Witness ==
    /\ resp.status = 500 /\ resp.error = "FOREIGN KEY constraint failed"
    /\ \E t \in transactions : \E c \in categories :
          c.id = t.category_id /\ c.is_active = 0
    /\ monthly_budgets # {}

\* C10: no request removes a category row: the set of category ids never shrinks,
\* and a deleteCategory keeps every row, with its name, its flag either as it was
\* or 0.
C10_CategoriesNeverRemoved ==
    [][ /\ { c.id : c \in categories } \subseteq { c.id : c \in categories' }
        /\ resp'.op = "deleteCategory" =>
              \A c \in categories : \E d \in categories' :
                  /\ d.id = c.id /\ d.name = c.name
                  /\ d.is_active \in {c.is_active, 0} ]_vars

\* every category the model allows exists and one of them was just deactivated
C10_Witness ==
    /\ resp.op = "deleteCategory"
    /\ Cardinality(categories) = MaxCategories
    /\ \E c \in categories : c.is_active = 0

\* ---------------------------------------------------------------- imports
\* the element has date, description, amount, type and category_id
Complete(txn) ==
    /\ txn.date # <<>>
    /\ txn.description \notin { <<>>, <<"">> }
    /\ txn.amount # <<>>
    /\ txn.type \notin { <<>>, <<"">> }
    /\ txn.category_id \notin { <<>>, <<0>> }

\* the store refuses the row of a complete element
Rejected(txn) ==
    /\ Complete(txn)
    /\ \/ txn.type[1] \notin {"income", "expense"}
       \/ (txn.source # <<>> /\ txn.source[1] \notin {"manual", "csv"})
       \/ \A c \in categories : c.id # txn.category_id[1]

\* the rows of the complete elements among the first n of q, numbered in order
\* from the counter on
RowsOfComplete(q, n) ==
    { [id |-> sqlite_sequence.transactions
                + Cardinality({ j \in 1..i : Complete(q[j]) }),
       date |-> q[i].date[1], description |-> q[i].description[1],
       amount |-> q[i].amount[1], type |-> q[i].type[1],
       category_id |-> q[i].category_id[1],
       source |-> IF q[i].source = <<>> THEN "csv" ELSE q[i].source[1]]
        : i \in { j \in 1..n : Complete(q[j]) } }

\* the step is an importTransactions request given an array
ImportStep == resp'.op = "importTransactions" /\ request'.kept /\ request'.isArray

C12_ImportNotAtomic ==
    [][ ImportStep =>
          LET q == request'.transactions
          IN \A k \in 1..Len(q) :
                (Rejected(q[k]) /\ \A j \in 1..(k - 1) : ~ Rejected(q[j])) =>
                    /\ transactions' = transactions \cup RowsOfComplete(q, k - 1)
                    /\ sqlite_sequence'.transactions
                          = sqlite_sequence.transactions
                            + Cardinality(RowsOfComplete(q, k - 1))
                    /\ resp'.status = 500 /\ resp'.n = 0 /\ resp'.error # ""
                    /\ UNCHANGED <<categories, monthly_budgets>> ]_vars

\* an import of three elements was answered 500: the first element is in the
\* store, the second was rejected, the third is complete, acceptable and not in
\* the store
C12_Witness ==
    /\ resp.op = "importTransactions" /\ resp.status = 500
    /\ request.kept /\ Len(request.transactions) = 3
    /\ Complete(request.transactions[1]) /\ ~ Rejected(request.transactions[1])
    /\ Rejected(request.transactions[2])
    /\ Complete(request.transactions[3]) /\ ~ Rejected(request.transactions[3])
    /\ Cardinality(transactions) = 1 /\ sqlite_sequence.transactions = 1
    /\ \A t \in transactions : t.source = "csv"

\* ------------------------------------------------------------- round trip
\* what a getTransactions response can hold: the rows of each month's fetch and
\* of the fetch without a month
Fetched == UNION { getTransactionsResults(month) : month \in MonthInputs }

\* a createTransaction that succeeds for a transaction dated in month m puts a
\* row with the new id and the request's fields into the fetch of m
CreatedIsFetched ==
    (resp'.op = "createTransaction" /\ resp'.status = 201) =>
    \A body \in ReportInputs.transactionBodies :
        createTransaction(body) =>
            /\ resp'.n \notin { t.id : t \in transactions }
            /\ \A m \in Months :
                  body.date[1] \div 100 = m =>
                      [id |-> resp'.n, date |-> body.date[1],
                       description |-> body.description[1],
                       amount |-> body.amount[1], type |-> body.type[1],
                       category_id |-> body.category_id[1], source |-> "manual"]
                          \in getTransactionsResults(Some(m))'

\* a deleteTransaction(id) leaves no row with that id in any fetch, and keeps
\* every other row where it was; an id that was given out and is gone never
\* comes back
DeletedIsGone ==
    /\ resp'.op = "deleteTransaction" =>
       \A id \in TransactionIdInputs :
          deleteTransaction(id) =>
              /\ \A t \in Fetched' : t.id # id
              /\ \A m \in Months : \A t \in getTransactionsResults(Some(m)) :
                    t.id # id => t \in getTransactionsResults(Some(m))'
    /\ transactions' # transactions =>
       \A id \in 1..sqlite_sequence.transactions :
          (\A t \in Fetched : t.id # id) => (\A t \in Fetched' : t.id # id)

\* C13 as stated: a created transaction dated in m is in every fetch of m, with
\* its id and fields, until a deleteTransaction; a deleted id is in no later
\* fetch.
C13_RoundTrip ==
    [][ /\ CreatedIsFetched
        /\ DeletedIsGone
        /\ (transactions' # transactions /\ resp'.op # "deleteTransaction") =>
              \A m \in Months : \A t \in getTransactionsResults(Some(m)) :
                  t \in getTransactionsResults(Some(m))' ]_vars

\* C13 as amended: a created transaction dated in m is in every fetch of m, with
\* its id and fields, until an updateTransaction or a deleteTransaction of it (an
\* updateTransaction rewrites at most one row and keeps every id); a deleted id
\* is in no later fetch.
C13_RoundTripUntilWritten ==
    [][ /\ CreatedIsFetched
        /\ DeletedIsGone
        /\ (transactions' # transactions
            /\ resp'.op \notin {"deleteTransaction", "updateTransaction"}) =>
              \A m \in Months : \A t \in getTransactionsResults(Some(m)) :
                  t \in getTransactionsResults(Some(m))'
        /\ resp'.op = "updateTransaction" =>
              /\ Cardinality(transactions \ transactions') <= 1
              /\ { t.id : t \in transactions' } = { t.id : t \in transactions } ]_vars

\* two transactions were created, the first was deleted, and the fetch of its
\* month returns the second and not the first
C13_Witness ==
    /\ resp.op = "deleteTransaction"
    /\ sqlite_sequence.transactions = 2
    /\ { t.id : t \in Fetched } = {2}
    /\ \E t \in getTransactionsResults(Some(202401)) : t.source = "manual"

\* -------------------------------------------------------------- validation
\* the body has no non-empty string name
InvalidName(body) ==
    \/ body.name = <<>>
    \/ body.name[1][1] # "string"
    \/ body.name[1][2] = ""

\* the body lacks one of the five fields or its type is not a transaction type
InvalidTransaction(body) ==
    \/ ~ Complete(body)
    \/ body.type[1] \notin {"income", "expense"}

\* the request is answered 400 and the store is as it was
Refused == resp'.status = 400 /\ UNCHANGED store

\* C16: every request that fails validation is answered 400 and leaves the store
\* unchanged (a category without a non-empty string name, a transaction that
\* lacks a field or has a type other than income / expense, an import of a
\* non-array, a budget save without month or array, a budget or summary fetch
\* without month); a 500 carries the message of a store call that failed.
C16_ValidationAnswers400 ==
    [][ /\ resp'.op = "createCategory" =>
              \A body \in StoreInputs.categoryBodies :
                  (createCategory(body) /\ InvalidName(body)) => Refused
        /\ resp'.op = "updateCategory" =>
              \A id \in CategoryIdInputs, body \in StoreInputs.categoryBodies :
                  (updateCategory(id, body) /\ InvalidName(body)) => Refused
        /\ resp'.op = "createTransaction" =>
              \A body \in StoreInputs.transactionBodies :
                  (createTransaction(body) /\ InvalidTransaction(body)) => Refused
        /\ resp'.op = "updateTransaction" =>
              \A id \in TransactionIdInputs, body \in StoreInputs.transactionBodies :
                  (updateTransaction(id, body) /\ InvalidTransaction(body)) => Refused
        /\ resp'.op = "importTransactions" =>
              \A body \in StoreInputs.importBodies :
                  (importTransactions(body) /\ ~ body.isArray) => Refused
        /\ resp'.op = "saveBudgets" =>
              \A body \in StoreInputs.budgetBodies :
                  (saveBudgets(body) /\ (body.month = <<>> \/ ~ body.isArray))
                      => Refused
        /\ resp'.op \in {"getBudgets", "getSummary"} =>
              \A month \in MonthInputs :
                  ((getBudgets(month) \/ getSummary(month)) /\ month = <<>>)
                      => Refused
        /\ resp'.status = 400 => UNCHANGED store
        /\ resp'.status = 500 =>
              resp'.error \in {"CHECK constraint failed",
                               "FOREIGN KEY constraint failed",
                               "UNIQUE constraint failed"} ]_vars

\* ------------------------------------------------------------ unique names
\* C17: no two category rows, active or not, have the same name; a
\* createCategory or updateCategory that would give a row the name of another
\* row, deactivated ones included, is answered with an error and leaves the
\* store unchanged.
C17_UniqueCategoryNames ==
    [][ /\ \A a \in categories' : \A b \in categories' : a.name = b.name => a = b
        /\ resp'.op = "createCategory" =>
              \A body \in StoreInputs.categoryBodies :
                  (/\ createCategory(body)
                   /\ ~ InvalidName(body)
                   /\ \E c \in categories : c.name = body.name[1][2])
                      => resp'.status >= 400 /\ resp'.error # "" /\ UNCHANGED store
        /\ resp'.op = "updateCategory" =>
              \A id \in CategoryIdInputs, body \in StoreInputs.categoryBodies :
                  (/\ updateCategory(id, body)
                   /\ ~ InvalidName(body)
                   /\ \E c \in categories : c.id = id
                   /\ \E c \in categories : c.id # id /\ c.name = body.name[1][2])
                      => resp'.status >= 400 /\ resp'.error # "" /\ UNCHANGED store
      ]_vars

\* a request for the name of a deactivated category was refused by the store
\* while two categories exist
C17_Witness ==
    /\ resp.op \in {"createCategory", "updateCategory"}
    /\ resp.status = 500 /\ resp.error = "UNIQUE constraint failed"
    /\ Cardinality(categories) = 2
    /\ \E c \in categories : c.is_active = 0 /\ c.name = "Housing"
    /\ \E c \in categories : c.is_active = 1 /\ c.name = "Pets"

\* ------------------------------------------------------------------ routes
\* the fixed routes of the API
FixedRoutes ==
    { <<"GET", "/api/categories">>, <<"POST", "/api/categories">>,
      <<"PUT", "/api/categories/1">>, <<"DELETE", "/api/categories/1">>,
      <<"GET", "/api/transactions">>, <<"POST", "/api/transactions">>,
      <<"PUT", "/api/transactions/1">>, <<"DELETE", "/api/transactions/1">>,
      <<"PUT", "/api/transactions/2">>, <<"PUT", "/api/transactions/3">>,
      <<"POST", "/api/transactions/import">>,
      <<"GET", "/api/budgets">>, <<"POST", "/api/budgets">>,
      <<"GET", "/api/reports/summary">> }

\* the request on record, when it matches no fixed route
Unmatched(r) == r.kept /\ <<r.method, r.path>> \notin FixedRoutes

\* the router hands a request to a handler of the API only on a fixed route
RoutedOnlyWhenFixed ==
    \A method \in Methods, path \in Paths :
        Route(method, path) \notin {"handleOptions", "notFound"}
            => <<method, path>> \in FixedRoutes

\* C18 as stated: a request whose path and method match no fixed route is
\* answered 404 with an error body and leaves the store unchanged.
C18_UnmatchedRoute404 ==
    [][ /\ RoutedOnlyWhenFixed
        /\ Unmatched(request') =>
              resp'.status = 404 /\ resp'.error # "" /\ UNCHANGED store ]_vars

\* C18 as amended: a request whose path and method match no fixed route leaves
\* the store unchanged; with a method other than OPTIONS it is answered 404
\* with an error body, with the method OPTIONS it is answered 204 without one.
C18_UnmatchedRoute404UnlessOptions ==
    [][ /\ RoutedOnlyWhenFixed
        /\ Unmatched(request') =>
              /\ UNCHANGED store
              /\ request'.method # "OPTIONS" =>
                    resp'.status = 404 /\ resp'.error # ""
              /\ request'.method = "OPTIONS" =>
                    resp'.status = 204 /\ resp'.error = "" ]_vars

\* DELETE /api/categories was answered 404 while the store holds a transaction
C18_Witness ==
    /\ request.kept /\ request.method = "DELETE" /\ request.path = "/api/categories"
    /\ resp.status = 404 /\ resp.error = "Not found"
    /\ transactions # {}

\* ---------------------------------------------------------------- ordering
\* C20: in every category_breakdown list getSummary can return, each row's
\* actual is greater than or equal to the actual of the row after it, and the
\* list holds the rows of the breakdown, each once.
C20_BreakdownOrdered ==
    \A m \in Months : \A q \in categoryBreakdownLists(m) :
        /\ \A i \in 1..(Len(q) - 1) : q[i].actual >= q[i + 1].actual
        /\ { q[i] : i \in 1..Len(q) } = getSummaryResult(m).category_breakdown
        /\ Len(q) = Cardinality(getSummaryResult(m).category_breakdown)

\* a summary was served while the category created later has spent more than
\* the first one, so that the list is not in the order of the ids
C20_Witness ==
    /\ resp.op = "getSummary" /\ resp.status = 200
    /\ \E q \in categoryBreakdownLists(202401) :
          /\ Len(q) = 2
          /\ q[1].id = 2 /\ q[2].id = 1
          /\ q[1].actual = 3 /\ q[2].actual = 2

\* -------------------------------------------------------------- CSV import
\* the lines of the file after its header line
DataLines(text) == Tail(SplitOn(Trim(text), "\n"))

\* the amount a line of a file with the columns d, s, a is written with: the
\* text after the line's second comma
AmountWritten(line) ==
    LET commas == { i \in 1..Len(line) : line[i] = "," }
    IN IF Cardinality(commas) < 2 THEN << >>
       ELSE LET k == CHOOSE i \in commas : Cardinality({ j \in commas : j < i }) = 1
            IN SubSeq(line, k + 1, Len(line))

\* the file of the example: one line 2024-03-01,Rent,$1,500
ExampleCsv ==
    Header \o Newline \o Date0301 \o Comma \o Rent \o Comma
      \o << "$", "1", ",", "5", "0", "0" >>

\* C14: every element handleCSVImport submits has the default type, the
\* default category, the source csv, and as amount the absolute value of the
\* amount a line of the file is written with, '$' and ',' stripped; importing
\* the one line of the example with the default type expense stores one
\* transaction with amount 1500, type expense, source csv.
C14_CsvMapping ==
    [][ (outcome'.handler = "handleCSVImport" /\ request'.kept) =>
          /\ \A i \in 1..Len(request'.transactions) :
                LET e == request'.transactions[i]
                IN /\ e.type = Some(outcome'.type)
                   /\ e.category_id = outcome'.category
                   /\ e.source = Some("csv")
                   /\ \E k \in 1..Len(DataLines(csvText)) :
                         e.amount = Abs(parseFloat(StripCurrency(
                                          Trim(AmountWritten(DataLines(csvText)[k])))))
          /\ (csvText = ExampleCsv /\ outcome'.type = "expense" /\ resp'.status = 200) =>
                \E t \in transactions' \ transactions :
                    /\ transactions' \ transactions = {t}
                    /\ t.amount = 1500 /\ t.type = "expense" /\ t.source = "csv" ]_vars

\* the claim's rows to drop: no date, no description, or an amount that is no
\* number (an absent cell included)
Dropped(row, cols) ==
    \/ row[cols.date] \in { Undefined, Some(<< >>) }
    \/ row[cols.description] \in { Undefined, Some(<< >>) }
    \/ row[cols.amount] = Undefined
    \/ parseFloat(StripCurrency(row[cols.amount][1])) = NaN

\* C15: handleCSVImport submits to the bulk-import endpoint one element for
\* every parsed row that has a date, a description and a numeric amount, none
\* for the other rows, and the count it shows is the number of rows kept.
C15_CsvDrops ==
    [][ outcome'.handler = "handleCSVImport" =>
          LET kept == { i \in 1..Len(parsedCSVData) : ~ Dropped(parsedCSVData[i], Columns) }
          IN /\ request'.kept
             /\ request'.path = "/api/transactions/import"
             /\ Len(request'.transactions) = Cardinality(kept)
             /\ outcome'.n = Cardinality(kept) ]_vars

\* ------------------------------------------------------------ client cache
\* C19: when handleAddCategory or handleDeleteCategory completes, having
\* refreshed the list, and no other category handler was in flight while it
\* ran, the client's cached list is the server's list of active categories.
C19_CacheIsActiveList ==
    [][ (outcome'.kind = "completed" /\ outcome'.alone) =>
          clientCategories' = { c \in categories' : c.is_active = 1 } ]_vars

\* handleDeleteCategory has completed alone: the cache, which held Housing at
\* the start, holds only the category added before, and the server lists it
C19_Witness ==
    /\ outcome.handler = "handleDeleteCategory"
    /\ outcome.kind = "completed" /\ outcome.alone
    /\ calls = << >>
    /\ { c.name : c \in clientCategories } = { "Pets" }
    /\ \E c \in categories : c.is_active = 0

\* ------------------------------------------------------------ budget saves
\* the pair has a category_id and a budget_amount
HasBoth(pair) == pair.category_id \notin { <<>>, <<0>> } /\ pair.budget_amount # <<>>

\* the store refuses the pair: its category_id is no category's id
RejectedPair(pair) ==
    HasBoth(pair) /\ \A c \in categories : c.id # pair.category_id[1]

\* the categories of the pairs that have both fields among the first n of q
PairCategories(q, n) == { q[i].category_id[1] : i \in { j \in 1..n : HasBoth(q[j]) } }

\* after the step the table holds one row for the month and each of these
\* categories, with the amount of the last of the first n pairs that names it
UpsertedFirst(month, q, n) ==
    \A c \in PairCategories(q, n) :
        LET last == CHOOSE i \in 1..n :
                       /\ HasBoth(q[i]) /\ q[i].category_id[1] = c
                       /\ \A j \in (i + 1)..n :
                             ~ (HasBoth(q[j]) /\ q[j].category_id[1] = c)
            rows == { mb \in monthly_budgets' : mb.month = month /\ mb.category_id = c }
        IN /\ Cardinality(rows) = 1
           /\ \A mb \in rows : mb.budget_amount = q[last].budget_amount[1]

\* the rows of other months and of the month's other categories, the
\* transactions and the categories are as they were
OtherRowsKept(month, q, n) ==
    /\ { mb \in monthly_budgets' : mb.month # month \/ mb.category_id \notin PairCategories(q, n) }
         = { mb \in monthly_budgets : mb.month # month \/ mb.category_id \notin PairCategories(q, n) }
    /\ UNCHANGED <<transactions, categories>>

\* the step is a saveBudgets request given a month and an array
SaveStep ==
    /\ resp'.op = "saveBudgets" /\ request'.kept
    /\ request'.month \notin { <<>>, <<0>> } /\ request'.isArray

ValidFields(body) ==
    /\ Complete(body)
    /\ body.type[1] \in {"income", "expense"}
    /\ \E c \in categories : c.id = body.category_id[1]

\* the step is an updateTransaction request with valid fields
UpdateStep ==
    /\ resp'.op = "updateTransaction" /\ request'.kept
    /\ ValidFields(request'.body[1])

\* C30: updateTransaction(id, body) with valid fields is answered 200; the row
\* with that id then has the body's date, description, amount, type and
\* category_id and its own id and source; every other transaction, the
\* categories, the budgets and the counters are unchanged, and when no row has
\* that id the store is unchanged.
C30_UpdateChangesOnlyItsRow ==
    [][ UpdateStep =>
          LET id == request'.id
              body == request'.body[1]
          IN /\ resp'.status = 200
             /\ \A t \in transactions :
                   IF t.id # id THEN t \in transactions'
                   ELSE \E u \in transactions' :
                           /\ u.id = t.id /\ u.source = t.source
                           /\ u.date = body.date[1]
                           /\ u.description = body.description[1]
                           /\ u.amount = body.amount[1]
                           /\ u.type = body.type[1]
                           /\ u.category_id = body.category_id[1]
             /\ Cardinality(transactions') = Cardinality(transactions)
             /\ { t.id : t \in transactions' } = { t.id : t \in transactions }
             /\ UNCHANGED <<categories, monthly_budgets, sqlite_sequence>>
             /\ (\A t \in transactions : t.id # id) => UNCHANGED store ]_vars

\* row 1, imported, was updated to another date, description, amount, type and
\* category, while row 2 and a budget row are in the store
C30_Witness ==
    /\ resp.op = "updateTransaction" /\ resp.status = 200
    /\ request.kept /\ request.id = 1
    /\ \E t \in transactions :
          /\ t.id = 1 /\ t.source = "csv" /\ t.date = 20240203
          /\ t.description = "Food" /\ t.amount = 3 /\ t.type = "income"
          /\ t.category_id = MaxCategories
    /\ \E t \in transactions : t.id = 2
    /\ monthly_budgets # {}

\* -------------------------------------------------------------------- types
\* C22: every stored transaction has type 'income' or 'expense', whatever
\* requests were served: a createTransaction, updateTransaction or
\* importTransactions element with another type leaves no row of that type.
C22_StoredTypes ==
    \A t \in transactions : t.type \in {"income", "expense"}

\* an update that carried another type was refused by the table's CHECK, and
\* the row it named is in the store with its type
C22_Witness ==
    /\ resp.op = "updateTransaction" /\ resp.status = 500
    /\ resp.error = "CHECK constraint failed"
    /\ \E t \in transactions : t.type = "expense"

\* ------------------------------------------------------------- deactivation
\* C28: no request reactivates a category: a category whose is_active is 0 is
\* in the store with is_active 0 after every request.
C28_NoReactivation ==
    [][ \A c \in categories :
          c.is_active = 0 =>
             /\ \E d \in categories' : d.id = c.id
             /\ \A d \in categories' : d.id = c.id => d.is_active = 0 ]_vars

\* the only category is deactivated and a createCategory with its name was
\* refused by the UNIQUE constraint
C28_Witness ==
    /\ resp.op = "createCategory" /\ resp.status = 500
    /\ resp.error = "UNIQUE constraint failed"
    /\ Cardinality(categories) = 1
    /\ \A c \in categories : c.is_active = 0 /\ c.id \in deactivated

\* --------------------------------------------------------- breakdown totals
RECURSIVE ActualById(_, _)
\* the sum of actual over the breakdown rows B, row by row from id n down
ActualById(n, B) ==
    IF n = 0 THEN 0
    ELSE ActualById(n - 1, B)
         + (LET rows == { r \in B : r.id = n }
            IN IF rows = {} THEN 0 ELSE (CHOOSE r \in rows : TRUE).actual)

\* every category an expense dated in m refers to is active
ExpenseCategoriesActive(m) ==
    \A t \in transactions :
        (t.type = "expense" /\ InMonth(t, m)) => t.category_id \in ActiveIds

\* C23: in every reachable store and for every month m in which every category
\* referenced by an expense dated in m is active, the sum of actual over the
\* category_breakdown rows of getSummary(m) equals its total_expenses.
C23_BreakdownSumsToExpenses ==
    \A m \in Months :
        ExpenseCategoriesActive(m) =>
            LET r == getSummaryResult(m)
            IN /\ ActualById(MaxCategories, r.category_breakdown) = r.total_expenses
               /\ \A a \in r.category_breakdown : \A b \in r.category_breakdown :
                     a.id = b.id => a = b

\* a summary was served while January's expenses, 2 and 3, lie in the two
\* categories, both active, next to a budget row
C23_Witness ==
    /\ resp.op = "getSummary" /\ resp.status = 200
    /\ ExpenseCategoriesActive(202401)
    /\ getSummaryResult(202401).total_expenses = 5
    /\ \E a \in getSummaryResult(202401).category_breakdown :
       \E b \in getSummaryResult(202401).category_breakdown :
          a.id # b.id /\ a.actual = 2 /\ b.actual = 3
    /\ monthly_budgets # {}

\* ------------------------------------------------------- CSV import count
\* C24: every element handleCSVImport submits has the fields the server's
\* import checks for, and when the handler reports a successful import the
\* number it reports, the length of the submitted array, is the number of rows
\* the server inserted.
C24_ReportedCountIsInserted ==
    [][ (outcome'.handler = "handleCSVImport" /\ request'.kept) =>
          /\ \A i \in 1..Len(request'.transactions) : Complete(request'.transactions[i])
          /\ outcome'.kind = "Successfully imported" =>
                /\ outcome'.n = Len(request'.transactions)
                /\ outcome'.n = Cardinality(transactions' \ transactions)
                /\ outcome'.n = resp'.n ]_vars

\* ------------------------------------------------------- overlapping calls
\* C27: once every handleAddCategory / handleDeleteCategory call has completed,
\* whatever the order their fetchCategories responses arrived in, the client's
\* cached list is the server's list of active categories.
C27_CacheAfterOverlap ==
    calls = << >> => clientCategories = { c \in categories : c.is_active = 1 }
\* ------------------------------------------------------------------ months
\* the month keys the cursor is stepped from: YYYY-MM keys in years where the
\* year keeps its four digits, where it loses them and where Date reads it as
\* a year of the 1900s, next to the cursor itself
MonthKeyYears == { 99, 1000, 2023, 2024, 9999 }
MonthKeys == { y * 100 + m : y \in MonthKeyYears, m \in 1..12 }

\* the key `${year}-${month padded to two digits}` is a YYYY-MM key
IsMonthKey(key) == Len(NumberText(key \div 100)) = 4 /\ (key % 100) \in 1..12

\* the calendar's month after and before the month of a key
CalendarNext(key) == IF key % 100 = 12 THEN (key \div 100 + 1) * 100 + 1 ELSE key + 1
CalendarPrev(key) == IF key % 100 = 1 THEN (key \div 100 - 1) * 100 + 12 ELSE key - 1

StepsAsCalendar(key) ==
    /\ IsMonthKey(MonthAfter(key, 1)) /\ MonthAfter(key, 1) = CalendarNext(key)
    /\ IsMonthKey(MonthAfter(key, -1)) /\ MonthAfter(key, -1) = CalendarPrev(key)
    /\ MonthAfter(MonthAfter(key, 1), -1) = key
    /\ MonthAfter(MonthAfter(key, -1), 1) = key

\* C29: for every month key as the cursor, changeMonth(1) and changeMonth(-1)
\* return a YYYY-MM key, the calendar's next and previous month, and next then
\* prev, or prev then next, gives the cursor back
C29_ChangeMonthIsCalendarStep ==
    /\ StepsAsCalendar(currentMonth)
    /\ changeMonth(1) = CalendarNext(currentMonth)
    /\ changeMonth(-1) = CalendarPrev(currentMonth)
    /\ \A key \in MonthKeys : StepsAsCalendar(key)

\* C25: on the dashboard, with no summary request in flight, the summary shown
\* is the one of the month of the cursor
C25_DashboardShowsCurrentMonth ==
    (/\ activePage = "dashboard"
     /\ \A i \in 1..Len(loads) : loads[i].page # "dashboard")
    => /\ dashboard.summary # << >>
       /\ dashboard.summary[1].month = currentMonth

\* C26: a save of the budget page is sent for the month its inputs were
\* loaded for
C26_SavedUnderLoadedMonth ==
    [][(outcome'.handler = "saveBudgetData" /\ budgetTable.month # << >>)
       => request'.month = budgetTable.month]_vars

====
